---- MODULE Spec2Model ----
(***************************************************************************)
(* Request-routing pipeline of the JSON-RPC reverse proxy:                 *)
(* ProxyService.handleRequest, proxyWithRetries, makeRPCCall, the          *)
(* RPCSelector and the CacheService write/read used by them.               *)
(*                                                                         *)
(* JavaScript values are encoded as records [t, k, s, a]: t the JSON type, *)
(* k the property name when the value is an object member, s the text of a *)
(* primitive, a the members of an array or object.  Strings are tokens;    *)
(* Chars spells out the tokens whose characters the code inspects.         *)
(***************************************************************************)
EXTENDS Integers, Sequences, FiniteSets, TLC

\* ------------------------------------------------------ program constants
DEFAULT_MAX_RETRIES == 3
RETRY_BASE_DELAY == 1000
DEFAULT_CHAIN_ID == 1
CACHE_DEFAULT_TTL == 300
HTTP_OK == 200
HTTP_BAD_REQUEST == 400
HTTP_INTERNAL_SERVER_ERROR == 500
HTTP_SERVICE_UNAVAILABLE == 503
HTTP_GATEWAY_TIMEOUT == 504
CODE_INVALID_PARAMS == -32602
CODE_INTERNAL_ERROR == -32603
CODE_CHAIN_NOT_SUPPORTED == -32001
CODE_NO_HEALTHY_RPCS == -32002
\* an AppError constructed without a requestId, and the 'unknown' that
\* ErrorHandler.createErrorResponse then writes into X-Request-ID
NoRequestId == 0
UnknownRequestId == -1

\* ------------------------------------------------------------ JS values
J(t, s) == [t |-> t, k |-> "", s |-> s, a |-> <<>>]
Undefined == J("undefined", "")
JNull == J("null", "")
JNum(s) == J("num", s)
JStr(s) == J("str", s)
JBool(s) == J("bool", s)
JArr(a) == [t |-> "arr", k |-> "", s |-> "", a |-> a]
JObj(a) == [t |-> "obj", k |-> "", s |-> "", a |-> a]
Member(k, v) == [t |-> v.t, k |-> k, s |-> v.s, a |-> <<>>]

\* typeof v
TypeOf(v) ==
  CASE v.t = "undefined" -> "undefined"
    [] v.t = "bool" -> "boolean"
    [] v.t = "num" -> "number"
    [] v.t = "str" -> "string"
    [] OTHER -> "object"

\* ToBoolean(v), as used by &&, ||, ! and if
Truthy(v) ==
  CASE v.t \in {"undefined", "null"} -> FALSE
    [] v.t = "bool" -> v.s = "true"
    [] v.t = "num" -> v.s # "0"
    [] v.t = "str" -> v.s # ""
    [] OTHER -> TRUE

\* a || b
OrElse(a, b) == IF Truthy(a) THEN a ELSE b

\* Array.isArray(v)
IsArray(v) == v.t = "arr"

\* The characters of the string tokens the code looks into.
Chars(s) ==
  CASE s = "" -> <<>>
    [] s = "0" -> <<"0">>
    [] s = "1" -> <<"1">>
    [] s = "9" -> <<"9">>
    [] s = "56" -> <<"5", "6">>
    [] s = "137" -> <<"1", "3", "7">>
    [] s = "rpc" -> <<"r", "p", "c">>
    [] s = "sol" -> <<"s", "o", "l">>
    [] s = "0xa" -> <<"0", "x", "a">>
    [] s = "0x38" -> <<"0", "x", "3", "8">>
    [] s = "56x" -> <<"5", "6", "x">>
    [] s = "a|b" -> <<"a", "|", "b">>
    [] s = "to" -> <<"t", "o">>
    [] s = "chainId" -> <<"c", "h", "a", "i", "n", "I", "d">>
    [] s = "null" -> <<"n", "u", "l", "l">>
    [] OTHER -> <<s>>

DigitChars == <<"0", "1", "2", "3", "4", "5", "6", "7", "8", "9">>
IsDigit(c) == \E d \in 1..10 : DigitChars[d] = c
DigitVal(c) == (CHOOSE d \in 1..10 : DigitChars[d] = c) - 1

\* String(n) for an integer n >= 0
RECURSIVE NumToChars(_)
NumToChars(n) ==
  IF n < 0 THEN <<"-">> \o NumToChars(0 - n)
  ELSE IF n < 10 THEN <<DigitChars[n + 1]>>
  ELSE NumToChars(n \div 10) \o <<DigitChars[(n % 10) + 1]>>

\* parseInt(str, 10): the value of the leading run of decimal digits after an
\* optional sign; NaN when there is none.  Result [nan, n].
RECURSIVE DigitsValue(_, _)
DigitsValue(cs, acc) ==
  IF cs = <<>> \/ ~IsDigit(Head(cs)) THEN acc
  ELSE DigitsValue(Tail(cs), acc * 10 + DigitVal(Head(cs)))

parseInt(cs) ==
  LET neg == cs # <<>> /\ Head(cs) = "-"
      rest == IF cs # <<>> /\ Head(cs) \in {"-", "+"} THEN Tail(cs) ELSE cs
  IN IF rest = <<>> \/ ~IsDigit(Head(rest)) THEN [nan |-> TRUE, n |-> 0]
     ELSE [nan |-> FALSE,
           n |-> IF neg THEN 0 - DigitsValue(rest, 0) ELSE DigitsValue(rest, 0)]

\* String(v) of a primitive
StringOf(v) ==
  CASE v.t = "null" -> "null"
    [] v.t = "undefined" -> "undefined"
    [] v.t \in {"obj", "arr"} -> "[object Object]"
    [] OTHER -> v.s

\* --------------------------------------------------- inbound request shape
\* The parsed body: top is the JSON type of the top-level value; the four
\* properties are Undefined when absent (and for every non-object value).
Body(top, jsonrpc, method, id, params) ==
  [top |-> top, jsonrpc |-> jsonrpc, method |-> method, id |-> id, params |-> params]

NoBody == Body("undefined", Undefined, Undefined, Undefined, Undefined)

\* isValidJSONRPC without its test of the version tag
isValidIgnoringVersion(request) ==
  /\ Truthy(J(request.top, "1"))
  /\ TypeOf(J(request.top, "1")) = "object"
  /\ TypeOf(request.method) = "string"
  /\ Len(Chars(request.method.s)) > 0
  /\ request.id # Undefined
  /\ \/ request.id.t = "null"
     \/ TypeOf(request.id) = "string"
     \/ TypeOf(request.id) = "number"

\* ProxyService.isValidJSONRPC
isValidJSONRPC(request) ==
  /\ Truthy(J(request.top, "1"))
  /\ TypeOf(J(request.top, "1")) = "object"
  /\ request.jsonrpc = JStr("2.0")
  /\ TypeOf(request.method) = "string"
  /\ Len(Chars(request.method.s)) > 0
  /\ request.id # Undefined
  /\ \/ request.id.t = "null"
     \/ TypeOf(request.id) = "string"
     \/ TypeOf(request.id) = "number"

\* Validator.validateJSONRPCRequest (isValid of its result); not called by
\* the dispatcher.
validateJSONRPCRequest(request) ==
  /\ Truthy(J(request.top, "1"))
  /\ TypeOf(J(request.top, "1")) = "object"
  /\ request.jsonrpc = JStr("2.0")
  /\ TypeOf(request.method) = "string"
  /\ Len(Chars(request.method.s)) > 0
  /\ request.id.t \notin {"undefined", "null"}
  /\ TypeOf(request.id) \in {"string", "number"}
  /\ (request.params = Undefined \/ IsArray(request.params))

\* ------------------------------------------------------ chain resolution
NumChain(n) == [t |-> "num", n |-> n, s |-> ""]
StrChain(s) == [t |-> "str", n |-> 0, s |-> s]
NoChain == [t |-> "null", n |-> 0, s |-> ""]

\* !chainId
ChainFalsy(c) ==
  \/ c.t = "null"
  \/ (c.t = "num" /\ c.n = 0)
  \/ (c.t = "str" /\ c.s = "")

\* String(chainId), as characters
ChainKey(c) == IF c.t = "num" THEN NumToChars(c.n) ELSE Chars(c.s)

\* url.pathname.match(/\/(?:rpc\/)?([^\/]+)/): the captured segment of a
\* path given as its sequence of non-empty segments; <<>> when no match.
PathMatch(path) ==
  IF path = <<>> THEN <<>>
  ELSE IF path[1] = "rpc" /\ Len(path) >= 2 THEN <<path[2]>>
  ELSE <<path[1]>>

\* numeric-looking strings become numbers, the rest stay strings
CoerceChain(s) ==
  LET p == parseInt(Chars(s))
  IN IF ~p.nan THEN NumChain(p.n) ELSE StrChain(s)

\* the members named chainId of the object-typed params
ChainParams(params) ==
  SelectSeq(params.a,
            LAMBDA p : TypeOf(p) = "object" /\ p.t # "null"
                       /\ \E i \in 1..Len(p.a) : p.a[i].k = "chainId")

ChainMember(p) == p.a[CHOOSE i \in 1..Len(p.a) : p.a[i].k = "chainId"]

\* ProxyService.extractChainId
extractChainId(request, jsonRPCRequest) ==
  LET m == PathMatch(request.path)
      q == OrElse(request.chainId, request.chain)
      ps == jsonRPCRequest.params
  IN IF m # <<>> THEN CoerceChain(m[1])
     ELSE IF Truthy(q) THEN CoerceChain(q.s)
     ELSE IF Truthy(ps) /\ IsArray(ps) /\ ChainParams(ps) # <<>>
       THEN CoerceChain(StringOf(ChainMember(ChainParams(ps)[1])))
     ELSE NumChain(DEFAULT_CHAIN_ID)

\* ------------------------------------------------------- configuration
Endpoint(url, priority, timeout, isActive) ==
  [url |-> url, priority |-> priority, timeout |-> timeout, isActive |-> isActive]

NoEndpoint == Endpoint("", 0, 0, FALSE)

Chain(key, rpcs) == [key |-> key, rpcs |-> rpcs]

NoChainConfig == Chain("", <<>>)

\* A configuration an operator has stored: chain 1 with two active endpoints
\* and an inactive one, chain 56 with one active endpoint, chain 137 with
\* none active.
StoredConfig ==
  { Chain("1", << Endpoint("a", 2, 30000, TRUE), Endpoint("b", 1, 5000, TRUE),
                  Endpoint("c", 1, 5000, FALSE) >>),
    Chain("56", << Endpoint("d", 1, 30000, TRUE) >>),
    Chain("137", << Endpoint("e", 1, 30000, FALSE) >>) }

\* DEFAULT_RPC_CONFIG (its first chains; every endpoint active)
DEFAULT_RPC_CONFIG ==
  { Chain("1", << Endpoint("llama", 10, 30000, TRUE), Endpoint("ankr", 9, 30000, TRUE) >>),
    Chain("137", << Endpoint("polygon", 10, 30000, TRUE) >>),
    Chain("56", << Endpoint("bsc", 10, 30000, TRUE) >>) }

NoConfig == {}

\* ConfigService.getConfig: the stored configuration, the default when none
\* is stored.
getConfig(store) == IF store = NoConfig THEN DEFAULT_RPC_CONFIG ELSE store

\* ConfigService.getChainConfig: config.chains[chainId] || null
getChainConfig(store, chainId) ==
  LET hits == {c \in getConfig(store) : Chars(c.key) = ChainKey(chainId)}
  IN IF hits = {} THEN NoChainConfig ELSE CHOOSE c \in hits : TRUE

\* ------------------------------------------- ConfigService mutations
\* config.chains[chainId], as a set of at most one chain
ChainsAt(config, key) == {c \in config : c.key = key}

\* config.chains[chainId] = chainConfig
PutChain(config, chain) == {c \in config : c.key # chain.key} \cup {chain}

\* rpcs.findIndex(rpc => rpc.url === rpcUrl), 0 for -1
FindIndex(rpcs, url) ==
  IF \E i \in 1 .. Len(rpcs) : rpcs[i].url = url
  THEN CHOOSE i \in 1 .. Len(rpcs) :
         rpcs[i].url = url /\ \A j \in 1 .. (i - 1) : rpcs[j].url # url
  ELSE 0

\* what a mutation makes of the configuration getConfig returned: the
\* configuration it hands to saveConfig, or threw when it throws before
Mutated(threw, config) == [threw |-> threw, config |-> config]

\* ConfigService.updateChainConfig, between getConfig and saveConfig
updateChainConfig(config, key, rpcs) == Mutated(FALSE, PutChain(config, Chain(key, rpcs)))

\* ConfigService.addRPCEndpoint
addRPCEndpoint(config, key, rpcEndpoint) ==
  IF ChainsAt(config, key) = {} THEN Mutated(TRUE, config)
  ELSE LET chain == CHOOSE c \in ChainsAt(config, key) : TRUE
       IN Mutated(FALSE, PutChain(config, Chain(key, Append(chain.rpcs, rpcEndpoint))))

\* ConfigService.removeRPCEndpoint
removeRPCEndpoint(config, key, rpcUrl) ==
  IF ChainsAt(config, key) = {} THEN Mutated(TRUE, config)
  ELSE LET chain == CHOOSE c \in ChainsAt(config, key) : TRUE
           rpcIndex == FindIndex(chain.rpcs, rpcUrl)
       IN IF rpcIndex = 0 THEN Mutated(TRUE, config)
          ELSE Mutated(FALSE,
                       PutChain(config,
                                Chain(key, SubSeq(chain.rpcs, 1, rpcIndex - 1)
                                           \o SubSeq(chain.rpcs, rpcIndex + 1,
                                                     Len(chain.rpcs)))))

\* ConfigService.updateRPCStatus
updateRPCStatus(config, key, rpcUrl, isActive) ==
  IF ChainsAt(config, key) = {} THEN Mutated(TRUE, config)
  ELSE LET chain == CHOOSE c \in ChainsAt(config, key) : TRUE
           rpcIndex == FindIndex(chain.rpcs, rpcUrl)
       IN IF rpcIndex = 0 THEN Mutated(TRUE, config)
          ELSE Mutated(FALSE,
                       PutChain(config,
                                Chain(key, [chain.rpcs EXCEPT
                                              ![rpcIndex].isActive = isActive])))

\* a mutation call: its name and arguments
Op(name, key, url, isActive, rpcs) ==
  [name |-> name, key |-> key, url |-> url, isActive |-> isActive, rpcs |-> rpcs]

\* the mutation applied to the configuration it read
Apply(op, config) ==
  CASE op.name = "updateRPCStatus" -> updateRPCStatus(config, op.key, op.url, op.isActive)
    [] op.name = "addRPCEndpoint" -> addRPCEndpoint(config, op.key, op.rpcs[1])
    [] op.name = "removeRPCEndpoint" -> removeRPCEndpoint(config, op.key, op.url)
    [] op.name = "updateChainConfig" -> updateChainConfig(config, op.key, op.rpcs)

\* ------------------------------------------------------------- selector
\* the endpoints of a chain without the isActive filter
AllRPCs(chainConfig) == chainConfig.rpcs

\* chainConfig.rpcs.filter(rpc => rpc.isActive)
ActiveRPCs(chainConfig) == SelectSeq(chainConfig.rpcs, LAMBDA r : r.isActive)

RECURSIVE SumPriority(_)
SumPriority(rpcs) ==
  IF rpcs = <<>> THEN 0 ELSE Head(rpcs).priority + SumPriority(Tail(rpcs))

\* Bound of the model: Math.random() * totalWeight takes the values
\* u / DrawGrid, u in Draws
DrawGrid == 2
Draws(rpcs) ==
  0 .. (IF SumPriority(rpcs) = 0 THEN 0 ELSE DrawGrid * SumPriority(rpcs) - 1)

\* RPCSelector.weightedRandomSelection with random = u / DrawGrid
RECURSIVE Walk(_, _)
Walk(rpcs, rem) ==
  IF Len(rpcs) = 1 THEN Head(rpcs)
  ELSE IF rem - DrawGrid * Head(rpcs).priority <= 0 THEN Head(rpcs)
  ELSE Walk(Tail(rpcs), rem - DrawGrid * Head(rpcs).priority)

weightedRandomSelection(rpcs, u) == Walk(rpcs, u)

\* a selection that returns the first endpoint listed, active or not
selectFirstListed(chainConfig, u) ==
  IF Len(chainConfig.rpcs) = 0 THEN NoEndpoint ELSE chainConfig.rpcs[1]

\* RPCSelector.selectRPC
selectRPC(chainConfig, u) ==
  LET activeRPCs == ActiveRPCs(chainConfig)
  IN IF Len(activeRPCs) = 0 THEN NoEndpoint
     ELSE IF Len(activeRPCs) = 1 THEN activeRPCs[1]
     ELSE weightedRandomSelection(activeRPCs, u)

\* chainConfig.rpcs.filter(rpc => rpc.isActive && rpc.url !== failedRPCUrl)
AvailableRPCs(chainConfig, failedRPCUrl) ==
  SelectSeq(chainConfig.rpcs, LAMBDA r : r.isActive /\ r.url # failedRPCUrl)

\* a failover that forgets the exclusion
failoverAmongActive(chainConfig, failedRPCUrl, u) ==
  IF Len(ActiveRPCs(chainConfig)) = 0 THEN NoEndpoint
  ELSE weightedRandomSelection(ActiveRPCs(chainConfig), u)

\* RPCSelector.getFailoverRPC of rpc_selector.ts
getFailoverRPC(chainConfig, failedRPCUrl, u) ==
  LET availableRPCs == AvailableRPCs(chainConfig, failedRPCUrl)
  IN IF Len(availableRPCs) = 0 THEN NoEndpoint
     ELSE weightedRandomSelection(availableRPCs, u)

\* the draws getFailoverRPC can make
FailoverDraws(chainConfig, failedRPCUrl) ==
  IF Len(AvailableRPCs(chainConfig, failedRPCUrl)) >= 1
    THEN Draws(AvailableRPCs(chainConfig, failedRPCUrl))
  ELSE {0}

\* the draws selectRPC can make for a chain
SelectDraws(chainConfig) ==
  IF Len(ActiveRPCs(chainConfig)) >= 2 THEN Draws(ActiveRPCs(chainConfig)) ELSE {0}

\* ---------------------------------------- performance-tracking selector
MAX_RESPONSE_SAMPLES == 10

\* responseTimesMap.get(rpcUrl); the empty sequence when the url has no entry
SamplesOf(map, url) == IF url \in DOMAIN map THEN map[url] ELSE <<>>

\* a recording that, on overflow, drops the sample just pushed
recordDropNewest(map, url, responseTime) ==
  [u \in DOMAIN map \cup {url} |->
     IF u # url THEN map[u]
     ELSE IF Len(SamplesOf(map, url)) >= MAX_RESPONSE_SAMPLES THEN map[u]
     ELSE Append(SamplesOf(map, url), responseTime)]

\* RPCSelector.recordResponseTime: push, then shift when over the maximum
recordResponseTime(map, url, responseTime) ==
  LET times == Append(SamplesOf(map, url), responseTime)
  IN [u \in DOMAIN map \cup {url} |->
        IF u # url THEN map[u]
        ELSE IF Len(times) > MAX_RESPONSE_SAMPLES THEN Tail(times)
        ELSE times]

RECURSIVE SumSeq(_)
SumSeq(xs) == IF xs = <<>> THEN 0 ELSE Head(xs) + SumSeq(Tail(xs))

RECURSIVE GCD(_, _)
GCD(a, b) == IF b = 0 THEN a ELSE GCD(b, a % b)

\* a number as the fraction num / den in lowest terms, num >= 0 and den > 0
Frac(num, den) == [num |-> num \div GCD(num, den), den |-> den \div GCD(num, den)]

\* RPCSelector.getAverageResponseTime: 0 without samples, else sum / length
getAverageResponseTime(map, url) ==
  LET times == SamplesOf(map, url)
  IN IF Len(times) = 0 THEN Frac(0, 1) ELSE Frac(SumSeq(times), Len(times))

\* The weight weightedRandomSelection computes for an endpoint (lines
\* 41-55): the priority, multiplied by Math.max(0.1, 100 / avg) when the
\* average is above 0.  As an exact fraction; 100 / avg >= 0.1 is
\* 1000 * den >= num.
Weight(map, rpc) ==
  LET avg == getAverageResponseTime(map, rpc.url)
  IN IF avg.num <= 0 THEN Frac(rpc.priority, 1)
     ELSE IF 1000 * avg.den >= avg.num
       THEN Frac(rpc.priority * 100 * avg.den, avg.num)
     ELSE Frac(rpc.priority, 10)

\* the least common denominator of the weights
RECURSIVE CommonDen(_, _)
CommonDen(map, rpcs) ==
  IF rpcs = <<>> THEN 1
  ELSE LET d == Weight(map, Head(rpcs)).den
           rest == CommonDen(map, Tail(rpcs))
       IN (d * rest) \div GCD(d, rest)

\* weights[], each as its numerator over the common denominator
Weights(map, rpcs) ==
  LET den == CommonDen(map, rpcs)
  IN [i \in 1..Len(rpcs) |->
        Weight(map, rpcs[i]).num * (den \div Weight(map, rpcs[i]).den)]

\* a walk that stops only when the remainder is below 0
RECURSIVE WalkBelowZero(_, _, _)
WalkBelowZero(rpcs, weights, rem) ==
  IF Len(rpcs) = 1 THEN Head(rpcs)
  ELSE IF rem - DrawGrid * Head(weights) < 0 THEN Head(rpcs)
  ELSE WalkBelowZero(Tail(rpcs), Tail(weights), rem - DrawGrid * Head(weights))

\* the loop of weightedRandomSelection (lines 62-70) on
\* random = u / (DrawGrid * common denominator)
RECURSIVE WalkWeighted(_, _, _)
WalkWeighted(rpcs, weights, rem) ==
  IF Len(rpcs) = 1 THEN Head(rpcs)
  ELSE IF rem - DrawGrid * Head(weights) <= 0 THEN Head(rpcs)
  ELSE WalkWeighted(Tail(rpcs), Tail(weights), rem - DrawGrid * Head(weights))

\* RPCSelector.selectRPC of the performance-tracking selector
trackedSelectRPC(map, chainConfig, u) ==
  LET activeRPCs == ActiveRPCs(chainConfig)
  IN IF Len(activeRPCs) = 0 THEN NoEndpoint
     ELSE IF Len(activeRPCs) = 1 THEN activeRPCs[1]
     ELSE WalkWeighted(activeRPCs, Weights(map, activeRPCs), u)

\* RPCSelector.getFailoverRPC of the performance-tracking selector
trackedGetFailoverRPC(map, chainConfig, failedRPCUrl, u) ==
  LET availableRPCs == AvailableRPCs(chainConfig, failedRPCUrl)
  IN IF Len(availableRPCs) = 0 THEN NoEndpoint
     ELSE WalkWeighted(availableRPCs, Weights(map, availableRPCs), u)

\* the draws the performance-tracking getFailoverRPC can make
TrackedFailoverDraws(map, chainConfig, failedRPCUrl) ==
  LET availableRPCs == AvailableRPCs(chainConfig, failedRPCUrl)
      total == SumSeq(Weights(map, availableRPCs))
  IN IF Len(availableRPCs) >= 1 /\ total > 0 THEN 0 .. (DrawGrid * total - 1) ELSE {0}

\* the draws the performance-tracking selectRPC can make for a chain
TrackedDraws(map, chainConfig) ==
  LET activeRPCs == ActiveRPCs(chainConfig)
      total == SumSeq(Weights(map, activeRPCs))
  IN IF Len(activeRPCs) >= 2 /\ total > 0 THEN 0 .. (DrawGrid * total - 1) ELSE {0}

\* ------------------------------------------------------------ cache keys
\* the printable ASCII characters, in code order from 32
Ascii ==
  << " ", "!", "\"", "#", "$", "%", "&", "'", "(", ")", "*", "+",
     ",", "-", ".", "/", "0", "1", "2", "3", "4", "5", "6", "7",
     "8", "9", ":", ";", "<", "=", ">", "?", "@", "A", "B", "C",
     "D", "E", "F", "G", "H", "I", "J", "K", "L", "M", "N", "O",
     "P", "Q", "R", "S", "T", "U", "V", "W", "X", "Y", "Z", "[",
     "\\", "]", "^", "_", "grave", "a", "b", "c", "d", "e", "f", "g",
     "h", "i", "j", "k", "l", "m", "n", "o", "p", "q", "r", "s",
     "t", "u", "v", "w", "x", "y", "z", "{", "|", "}", "~" >>

\* str.charCodeAt(i)
charCodeAt(c) == 31 + (CHOOSE i \in 1..Len(Ascii) : Ascii[i] = c)

\* a ^ b on 16-bit operands
RECURSIVE Xor(_, _, _)
Xor(a, b, bits) ==
  IF bits = 0 THEN 0
  ELSE ((a + b) % 2) + 2 * Xor(a \div 2, b \div 2, bits - 1)

\* One round of fnv1aHash on the 32-bit hash [hi, lo] (16-bit halves):
\* hash ^= code; hash += (hash << 1) + (hash << 4) + (hash << 7)
\*                      + (hash << 8) + (hash << 24), modulo 2^32.
FnvRound(h, code) ==
  CHOOSE r \in { [lo |-> (lo * 403) % 65536,
                  hi |-> (h.hi * 403 + ((lo * 403) \div 65536) + (lo % 256) * 256) % 65536] :
                   lo \in {Xor(h.lo, code, 16)} } : TRUE

\* the loop of fnv1aHash; each round's hash is bound as a value before the
\* next round reads it
RECURSIVE FnvFold(_, _)
FnvFold(h, cs) ==
  IF cs = <<>> THEN h
  ELSE CHOOSE out \in { FnvFold(next, Tail(cs)) :
                          next \in {FnvRound(h, charCodeAt(Head(cs)))} } : TRUE

\* fnv1aHash(str): the unsigned 32-bit value whose hex digits are returned
fnv1aHash(cs) == FnvFold([hi |-> 33052, lo |-> 40389], cs)

NoHash == [hi |-> -1, lo |-> -1]

\* JSON.stringify(p) of an object param
RECURSIVE StringifyMembers(_)
StringifyMembers(ms) ==
  IF ms = <<>> THEN <<>>
  ELSE LET m == Head(ms)
           v == IF m.t = "str" THEN <<"\"">> \o Chars(m.s) \o <<"\"">>
                ELSE Chars(StringOf(m))
       IN <<"\"">> \o Chars(m.k) \o <<"\"", ":">> \o v
          \o (IF Tail(ms) = <<>> THEN <<>> ELSE <<",">>)
          \o StringifyMembers(Tail(ms))

\* the text a param contributes to paramsStr
ParamText(p) ==
  CASE p.t \in {"null", "undefined"} -> Chars("null")
    [] p.t = "obj" -> <<"{">> \o StringifyMembers(p.a) \o <<"}">>
    [] p.t = "arr" -> <<"[", "]">>
    [] OTHER -> Chars(StringOf(p))

\* params.map(...).join('|')
RECURSIVE ParamsStr(_)
ParamsStr(ps) ==
  IF ps = <<>> THEN <<>>
  ELSE ParamText(Head(ps))
       \o (IF Tail(ps) = <<>> THEN <<>> ELSE <<"|">> \o ParamsStr(Tail(ps)))

\* generateCacheKey throws (params.map is not a function) when params is a
\* truthy value that is not an array
KeyThrows(params) == Truthy(params) /\ ~IsArray(params)

\* a derivation that takes the short form for absent params only
keyWithoutLengthTest(chainId, method, params) ==
  IF ~Truthy(params)
  THEN [chain |-> chainId, method |-> method, hash |-> NoHash]
  ELSE [chain |-> chainId, method |-> method, hash |-> fnv1aHash(ParamsStr(params.a))]

\* generateCacheKey(chainId, method, params) on params = request.params || []
generateCacheKey(chainId, method, params) ==
  IF ~Truthy(params) \/ Len(params.a) = 0
  THEN [chain |-> chainId, method |-> method, hash |-> NoHash]
  ELSE [chain |-> chainId, method |-> method, hash |-> fnv1aHash(ParamsStr(params.a))]

\* ----------------------------------------------------------- cache layer
\* a whitelist that also admits the transaction-submitting method
cacheableWithSend ==
  { "eth_blockNumber", "eth_getBalance", "eth_getBlockByNumber", "eth_getBlockByHash",
    "eth_getTransactionByHash", "eth_getTransactionReceipt", "eth_call", "eth_estimateGas",
    "eth_sendRawTransaction" }

\* cacheableMethods of CacheService.cacheRPCResponse
cacheableMethods ==
  { "eth_blockNumber", "eth_getBalance", "eth_getBlockByNumber", "eth_getBlockByHash",
    "eth_getTransactionByHash", "eth_getTransactionReceipt", "eth_call", "eth_estimateGas" }

\* CacheService.getRPCCacheTTL, in seconds
getRPCCacheTTL(method) ==
  CASE method = "eth_blockNumber" -> 5
    [] method \in {"eth_getBalance", "eth_estimateGas"} -> 30
    [] method = "eth_getBlockByNumber" -> 300
    [] method \in {"eth_getBlockByHash", "eth_getTransactionByHash",
                   "eth_getTransactionReceipt"} -> 3600
    [] method = "eth_call" -> 60
    [] OTHER -> CACHE_DEFAULT_TTL

\* A JSON body an upstream sends (and CacheEntry.data): kind "rpc" is a
\* JSON-RPC response (jsonrpc "2.0" and an id member), "other" any other
\* JSON value, "malformed" text that JSON.parse rejects, "none" no body.
UpBody(kind, id, hasError, result) ==
  [kind |-> kind, id |-> id, hasError |-> hasError, result |-> result]

NoUpBody == UpBody("none", Undefined, FALSE, "")

\* str.length of a result token: "hex962" and "hex963" stand for hex strings
\* of 962 and 963 characters, which put the serialized entry just below and
\* just at the compression threshold
TextLength(s) ==
  CASE s = "hex962" -> 962
    [] s = "hex963" -> 963
    [] OTHER -> Len(Chars(s))

\* JSON.stringify(entry).length for the payloads of the model
SerializedLength(data) == 60 + TextLength(data.id.s) + TextLength(data.result)

\* shouldCompress(data, minSize = 1024)
shouldCompress(len) == len >= 1024

\* cache.put: last writer wins
KVPut(store, rec) == {r \in store : r.key # rec.key} \cup {rec}

\* cache.delete
KVDelete(store, key) == {r \in store : r.key # key}

\* a read that returns whatever the store holds, whatever the key
KVGetAnyKey(store, key) == store

\* cache.getWithMetadata: the records under the key
KVGet(store, key) == {r \in store : r.key = key}

\* an expiry check that never finds an entry expired
EntryNeverExpired(entry, t) == FALSE

\* the additional expiry check of CacheService.get
EntryExpired(entry, t) == entry.timestamp + entry.ttl * 1000 < t

\* ttl || this.config.defaultTTL
EffectiveTtl(ttl) == IF ttl = 0 THEN CACHE_DEFAULT_TTL ELSE ttl

\* A stored text is told by its encoding and the entry it encodes: "json" is
\* JSON.stringify(entry), "gzip64" the base64 of its gzip, "garbage" a text
\* that is neither.
JSONStringify(entry) == [enc |-> "json", entry |-> entry]

\* a compressForCache that hands every text back as it is
compressNothing(text, len) == text

\* compressForCache(data): btoa of gzip(data) for a text of 1024 or more
compressForCache(text, len) ==
  IF ~shouldCompress(len) THEN text ELSE [text EXCEPT !.enc = "gzip64"]

\* a decompressFromCache that hands every text back as it is
decompressNothing(data, gunzipOk) == data

\* decompressFromCache(data): a text that starts with a brace is returned as
\* it is; otherwise atob and gunzip, and the data as it is when either throws
decompressFromCache(data, gunzipOk) ==
  IF data.enc = "json" THEN data
  ELSE IF data.enc = "gzip64" /\ gunzipOk THEN [data EXCEPT !.enc = "json"]
  ELSE data

\* JSON.parse(text): [threw, value]
JSONParse(text) == [threw |-> text.enc # "json", value |-> text.entry]

\* What CacheService.set puts under the key at time t (lines 570-604); with
\* compressOk false compressForCache throws and the text is stored as it is
SetRecord(key, value, ttl, t, compressOk) ==
  LET entry == [data |-> value, timestamp |-> t, ttl |-> EffectiveTtl(ttl)]
      len == SerializedLength(value)
      compressed == shouldCompress(len) /\ compressOk
  IN [key |-> key,
      entry |-> entry,
      enc |-> (IF compressed THEN compressForCache(JSONStringify(entry), len)
               ELSE JSONStringify(entry)).enc,
      compressed |-> compressed,
      expiresAt |-> t + EffectiveTtl(ttl) * 1000]

\* What CacheService.set puts in the store under a key at time t when nothing
\* fails: the entry wrapper, the compressed flag of the metadata, the store's
\* own expiry.
StoreRecord(key, value, ttl, t) == SetRecord(key, value, ttl, t, TRUE)

\* the outcome of a CacheService call: the value returned (hit, data), the
\* store afterwards, the error caught and swallowed on the way, if any, and
\* the result the call reports to the metrics
Outcome(hit, data, store, fault, result) ==
  [hit |-> hit, data |-> data, store |-> store, fault |-> fault, result |-> result]

\* the faults a set and a get can meet, one at most per call
SetFaults == {"none", "compress", "put"}
GetFaults == {"none", "read", "garbled", "gunzip", "delete"}

\* CacheService.set(key, value, ttl) at time t: a compression that throws is
\* caught and the text stored as it is; a put that throws is caught by the
\* outer catch
CacheServiceSet(store, key, value, ttl, t, fault) ==
  Outcome(FALSE, NoUpBody,
          IF fault = "put" THEN store
          ELSE KVPut(store, SetRecord(key, value, ttl, t, fault # "compress")),
          IF fault = "put" THEN "put"
          ELSE IF fault = "compress" /\ shouldCompress(SerializedLength(value))
            THEN "compress"
          ELSE "none",
          IF fault = "put" THEN "error" ELSE "set")

\* CacheService.delete(key)
CacheServiceDelete(store, key, fault) ==
  Outcome(FALSE, NoUpBody, IF fault = "delete" THEN store ELSE KVDelete(store, key),
          IF fault = "delete" THEN "delete" ELSE "none", "expired")

\* CacheService.get(key) at time t.  With fault "read" getWithMetadata
\* throws, with "garbled" it returns a text that is not what set stored, with
\* "gunzip" the decompression throws, with "delete" the delete of an expired
\* entry throws.  Past its own expiry the store may (kvHolds) or may not
\* still return the record.
CacheServiceGet(store, key, t, kvHolds, fault) ==
  LET held == {r \in KVGet(store, key) : t < r.expiresAt \/ kvHolds}
  IN IF fault = "read" THEN Outcome(FALSE, NoUpBody, store, "read", "error")
     ELSE IF held = {}
     THEN Outcome(FALSE, NoUpBody, KVDelete(store, key), "none", "miss")
     ELSE LET r == CHOOSE x \in held : TRUE
              raw == IF fault = "garbled" THEN [enc |-> "garbage", entry |-> r.entry]
                     ELSE [enc |-> r.enc, entry |-> r.entry]
              text == IF r.compressed THEN decompressFromCache(raw, fault # "gunzip")
                      ELSE raw
              parsed == JSONParse(text)
          IN IF parsed.threw
             THEN Outcome(FALSE, NoUpBody, store,
                          IF fault = "garbled" THEN "garbled" ELSE "gunzip", "error")
             ELSE IF EntryExpired(parsed.value, t)
             THEN CacheServiceDelete(store, key, fault)
             ELSE Outcome(TRUE, parsed.value.data, store, "none", "hit")

\* ------------------------------------------------------------ responses
Msg(text, arg) == [text |-> text, arg |-> arg]

\* An HTTP response: fmt "jsonrpc" is a JSON-RPC error envelope
\* {jsonrpc, error: {code, message}, id}; "app" is the ErrorHandler body
\* {success: false, error: {code, message, timestamp, requestId}}; "cached"
\* is a cached payload, "upstream" an upstream body; bodyUsed tells that the
\* body stream has been read.
Resp(status, fmt, code, codeName, message, id, xRequestId, xCache, body, bodyUsed) ==
  [status |-> status, fmt |-> fmt, code |-> code, codeName |-> codeName,
   message |-> message, id |-> id, xRequestId |-> xRequestId, xCache |-> xCache,
   body |-> body, bodyUsed |-> bodyUsed]

NoResponse ==
  Resp(0, "none", 0, "", Msg("", 0), Undefined, NoRequestId, FALSE, NoUpBody, FALSE)

\* response.ok
Ok(status) == status >= 200 /\ status <= 299

\* members of the ErrorCode enum: the JSON-RPC ones are numbers, the
\* general ones strings
NumCode(n) == [num |-> TRUE, n |-> n, name |-> ""]
StrCode(name) == [num |-> FALSE, n |-> 0, name |-> name]
INVALID_REQUEST == StrCode("INVALID_REQUEST")
CHAIN_NOT_SUPPORTED == NumCode(CODE_CHAIN_NOT_SUPPORTED)
NO_HEALTHY_RPCS == NumCode(CODE_NO_HEALTHY_RPCS)

\* ProxyService.createErrorResponse
createErrorResponse(code, message, id, requestId) ==
  Resp(HTTP_OK, "jsonrpc", IF code.num THEN code.n ELSE CODE_INTERNAL_ERROR, "",
       Msg(message, 0), id, requestId, FALSE, NoUpBody, FALSE)

\* AppError and its subclasses
AppError(message, code, statusCode, requestId) ==
  [message |-> message, code |-> code, statusCode |-> statusCode, requestId |-> requestId]
ValidationError(message) ==
  AppError(message, "-32602", HTTP_BAD_REQUEST, NoRequestId)
NetworkError(message) ==
  AppError(message, "NETWORK_ERROR", HTTP_SERVICE_UNAVAILABLE, NoRequestId)
SystemError(message) ==
  AppError(message, "-32603", HTTP_INTERNAL_SERVER_ERROR, NoRequestId)
TimeoutError(operation) ==
  AppError(Msg("Request timeout after (arg)ms timed out", operation), "TIMEOUT",
           HTTP_GATEWAY_TIMEOUT, NoRequestId)

\* ErrorHandler.createErrorResponse
errorHandlerCreateErrorResponse(error) ==
  Resp(error.statusCode, "app", 0, error.code, error.message, Undefined,
       IF error.requestId # NoRequestId THEN error.requestId ELSE UnknownRequestId,
       FALSE, NoUpBody, FALSE)

\* handleRequest without its catch block: the fault leaves it, no Response
Uncaught == NoResponse

\* the catch block of handleRequest
handleRequestCatch ==
  errorHandlerCreateErrorResponse(
    SystemError(Msg("Internal error occurred during request processing", 0)))

\* ------------------------------------------------------------- upstream
\* What fetch() does for one attempt: reject (network error), abort on the
\* endpoint's timeout, or resolve with a status, a content type and a body.
Reply(kind, status, ctJson, body) ==
  [kind |-> kind, status |-> status, ctJson |-> ctJson, body |-> body]

UpstreamStatuses == {200, 500}

UpstreamBodies(id) ==
  { UpBody("rpc", id, FALSE, "0x1"), UpBody("rpc", id, TRUE, ""),
    UpBody("other", Undefined, FALSE, ""), UpBody("malformed", Undefined, FALSE, "") }

Replies(id) ==
  { Reply("neterr", 0, FALSE, NoUpBody), Reply("timeout", 0, FALSE, NoUpBody) }
  \cup { Reply("http", st, ct, b) :
           st \in UpstreamStatuses, ct \in BOOLEAN, b \in UpstreamBodies(id) }

\* jsonResponse.jsonrpc === '2.0' && 'id' in jsonResponse
IsJSONRPCResponse(body) == body.kind = "rpc"

\* Whether makeRPCCall reaches cacheRPCResponse for this reply (lines 339-346)
ReachesCache(enabled, reply) ==
  /\ reply.kind = "http"
  /\ reply.ctJson
  /\ IsJSONRPCResponse(reply.body)
  /\ enabled
  /\ ~reply.body.hasError

\* Whether cacheRPCResponse calls set (the method is whitelisted and the key
\* derivation does not throw)
CallsSet(enabled, reply, request) ==
  /\ ReachesCache(enabled, reply)
  /\ request.method.s \in cacheableMethods
  /\ ~KeyThrows(OrElse(request.params, JArr(<<>>)))

\* Whether the try block around JSON.parse and the cache write throws into
\* its catch (lines 341-390)
InnerCatch(enabled, reply, request) ==
  \/ reply.body.kind = "malformed"
  \/ /\ ReachesCache(enabled, reply)
     /\ request.method.s \in cacheableMethods
     /\ KeyThrows(OrElse(request.params, JArr(<<>>)))

\* ProxyService.makeRPCCall: [threw, error] or the Response it returns
makeRPCCall(enabled, rpc, reply, request) ==
  CASE reply.kind = "neterr" ->
         [threw |-> TRUE, error |-> Msg("fetch failed", 0), response |-> NoResponse]
    [] reply.kind = "timeout" ->
         [threw |-> TRUE, error |-> TimeoutError(rpc.timeout).message,
          response |-> NoResponse]
    [] OTHER ->
         [threw |-> FALSE, error |-> Msg("", 0),
          response |->
            IF reply.ctJson
            THEN IF IsJSONRPCResponse(reply.body) /\ ~InnerCatch(enabled, reply, request)
                 THEN \* new Response(responseText, ...)
                      Resp(reply.status, "upstream", 0, "", Msg("", 0), Undefined,
                           NoRequestId, FALSE, reply.body, FALSE)
                 ELSE \* return response, whose text has been read
                      Resp(reply.status, "upstream", 0, "", Msg("", 0), Undefined,
                           NoRequestId, FALSE, reply.body, TRUE)
            ELSE Resp(reply.status, "upstream", 0, "", Msg("", 0), Undefined,
                      NoRequestId, FALSE, reply.body, FALSE)]

\* a delay that grows linearly instead of doubling
LinearDelay(attempt) == RETRY_BASE_DELAY * (attempt + 1)

\* the delay before the retry that follows failed attempt number attempt
RECURSIVE Pow2(_)
Pow2(n) == IF n = 0 THEN 1 ELSE 2 * Pow2(n - 1)
BackoffDelay(attempt) == RETRY_BASE_DELAY * Pow2(attempt)

\* ---------------------------------------------------------------- state
VARIABLES
  pc,            \* where handleRequest stands
  reqCount,      \* requests received so far
  now,           \* Date.now(), in ms
  cacheEnabled,  \* whether ProxyService was constructed with a cache
  cache,         \* the cache KV namespace: a set of store records
  configStore,   \* the RPC_CONFIG KV value: a set of chains, NoConfig when unset
  http,          \* the inbound Request
  requestId,     \* crypto.randomUUID() of this request
  json,          \* jsonRPCRequest
  chainId,
  chainConfig,
  attempt,       \* loop index of proxyWithRetries
  lastError,
  selectedRPC,   \* context.selectedRPC
  upResp,        \* the Response proxyWithRetries returns
  response,      \* the Response handleRequest returns
  nCacheReads,   \* cache.getWithMetadata calls of this request
  nCacheWrites,  \* cache.put calls of this request
  nSelect,       \* selectRPC calls of this request
  nUpstream,     \* fetch calls of this request
  okAt,          \* the attempts (1-based) whose response was ok
  failedAt,      \* the attempts (1-based) the loop counted as failed
  attempted,     \* the rpcUrl's of the 'Attempting RPC call' log lines
  sleeps,        \* the delays slept, with the attempt index they followed
  upReply,       \* what fetch resolved with in the attempt that succeeded
  cacheFaults,   \* errors CacheService caught and swallowed in this request
  nConfigReads,  \* RPC_CONFIG.get calls of this request
  nConfigWrites, \* RPC_CONFIG.put calls of this request
  cacheResult,   \* the last CacheService call made on its own, and its outcome
  responseTimesMap,  \* RPCSelector.responseTimesMap: url -> samples
  recorded,      \* every sample recordResponseTime was given, per url
  picked,        \* the last selection made on its own: chain, draw, result
  failover,      \* the last getFailoverRPC call made on its own
  upstreamCall,  \* one makeRPCCall followed in time: timer, fetch, body
  derived,       \* the last two generateCacheKey calls made on their own
  reader,        \* one CacheService.get followed across its awaits
  writers,       \* the configuration mutations in progress, per caller
  healthRun,     \* one runPeriodicHealthCheck followed step by step
  probes,        \* one checkAllHealth: the probes started and settled
  dedup          \* RequestDeduplicator: pending map and the calls made

vars ==
  << pc, reqCount, now, cacheEnabled, cache, configStore, http, requestId,
     json, chainId, chainConfig, attempt, lastError, selectedRPC, upResp, response,
     nCacheReads, nCacheWrites, nSelect, nUpstream, okAt, failedAt, attempted,
     sleeps, upReply, cacheFaults, nConfigReads, nConfigWrites, cacheResult, responseTimesMap, recorded, picked,
     failover, upstreamCall, derived, reader, writers, healthRun, probes, dedup >>

\* what no step of handleRequest assigns: the selector's latency windows are
\* written by recordResponseTime only, which handleRequest never calls
selectorVars == << responseTimesMap, recorded, picked, failover >>
serviceVars == << writers, healthRun, probes, dedup >>
aloneVars == << upstreamCall, derived, reader, serviceVars >>
envVars == << now, cacheEnabled, cacheResult, selectorVars, aloneVars >>
logVars ==
  << nCacheReads, nCacheWrites, nSelect, nUpstream, okAt, failedAt, attempted, sleeps,
     upReply, cacheFaults, nConfigReads, nConfigWrites >>
loopVars == << attempt, lastError, selectedRPC, upResp >>

\* --------------------------------------------------------------- inputs
JsonRpcVals == {JStr("2.0"), JStr("1.0")}
MethodVals == {JStr("eth_blockNumber"), JStr("eth_sendRawTransaction"), JStr("")}
IdVals == {Undefined, JNull, JNum("0"), JNum("1"), JStr(""), JBool("true")}
ParamVals == {Undefined, JArr(<<JStr("0xa")>>), JObj(<<>>)}

Bodies ==
  { Body("obj", v, m, i, p) :
      v \in JsonRpcVals, m \in MethodVals, i \in IdVals, p \in ParamVals }
  \cup { Body("null", Undefined, Undefined, Undefined, Undefined) }

Paths == { <<"1">>, <<"rpc", "56">>, <<"137">>, <<"9">> }

Request(parses, body, path, qChainId, qChain) ==
  [parses |-> parses, body |-> body, path |-> path, chainId |-> qChainId,
   chain |-> qChain]

NoRequest == Request(FALSE, NoBody, <<>>, JNull, JNull)

\* POST /rpc?chainId=56, the query form of /rpc/56
QueryRequests == { Request(TRUE, b, <<"rpc">>, JStr("56"), JNull) : b \in Bodies }

Requests ==
  { Request(TRUE, b, p, JNull, JNull) : b \in Bodies, p \in Paths }
  \cup { Request(FALSE, NoBody, p, JNull, JNull) : p \in Paths }
  \cup QueryRequests

\* What the cache store may hold when a request arrives: nothing, or the
\* entry an earlier request (id 7, at time 0) left for eth_blockNumber on
\* chain 1.
EarlierCaches ==
  { {},
    { StoreRecord(generateCacheKey(ChainKey(NumChain(1)), "eth_blockNumber", JArr(<<>>)),
                  UpBody("rpc", JNum("7"), FALSE, "0x1"),
                  getRPCCacheTTL("eth_blockNumber"), 0) } }

\* no fetch has resolved
NoReply == Reply("none", 0, FALSE, NoUpBody)

\* no CacheService call has been made on its own
CallResult(op, key, value, ttl, at, fault, out) ==
  [op |-> op, key |-> key, value |-> value, ttl |-> ttl, at |-> at, fault |-> fault,
   caught |-> out.fault, hit |-> out.hit, data |-> out.data, result |-> out.result]

NoCacheResult ==
  CallResult("none", "", NoUpBody, 0, 0, "none",
             Outcome(FALSE, NoUpBody, {}, "none", "none"))

\* new Map(): no url has samples
NoSamples == [u \in {} |-> <<>>]

\* no selection has been made on its own
Pick(variant, chain, draw, result) ==
  [variant |-> variant, chain |-> chain, draw |-> draw, result |-> result]

NoPick == Pick("none", NoChainConfig, 0, NoEndpoint)

\* no getFailoverRPC call has been made on its own
Failover(variant, chain, failedRPCUrl, draw, result) ==
  [variant |-> variant, chain |-> chain, failedRPCUrl |-> failedRPCUrl, draw |-> draw,
   result |-> result]

NoFailover == Failover("none", NoChainConfig, "", 0, NoEndpoint)

\* One makeRPCCall followed in time.  elapsed: ms since the call started, in
\* ticks; timer: the setTimeout of line 305; upstream: the fetch, from the
\* connection to the last byte of the body; outcome: how makeRPCCall ended.
Call(at, timeout, elapsed, timer, upstream, ctJson, ok, finishedAt, outcome) ==
  [pc |-> at, timeout |-> timeout, elapsed |-> elapsed, timer |-> timer,
   upstream |-> upstream, ctJson |-> ctJson, ok |-> ok, finishedAt |-> finishedAt,
   outcome |-> outcome]

\* no makeRPCCall has been started on its own
NoCall == Call("idle", 0, 0, "unset", "none", FALSE, FALSE, -1, "none")

\* a generateCacheKey call: its arguments and the key returned
Derivation(chain, method, params, key) ==
  [chain |-> chain, method |-> method, params |-> params, key |-> key]

\* no generateCacheKey call has been made on its own
NoKeys == <<>>

\* One CacheService.get followed across its awaits: the key, the record
\* getWithMetadata returned (seen, a set of at most one record), and what
\* get returned
Reader(at, key, seen, hit) == [pc |-> at, key |-> key, seen |-> seen, hit |-> hit]

\* no get has been started on its own
NoReader == Reader("idle", "", {}, FALSE)

\* One configuration mutation followed across its awaits: loaded after
\* getConfig, saved after saveConfig, failed when it threw in between.
Writer(at, op, config) == [pc |-> at, op |-> op, config |-> config]

NoOp == Op("none", "", "", FALSE, <<>>)
Callers == {"health", "admin"}
NoWriters == [w \in Callers |-> Writer("idle", NoOp, NoConfig)]

\* One runPeriodicHealthCheck: the configuration checkAllHealth read, the
\* probes not yet settled (chain key and position), the results in the
\* order the probes settled, and the position of updateRPCStatus' loop.
HealthRun(at, config, pending, results, next) ==
  [pc |-> at, config |-> config, pending |-> pending, results |-> results,
   next |-> next]

NoHealthRun == HealthRun("idle", NoConfig, {}, <<>>, 0)
\* One checkAllHealth: the number of configured endpoints, the probes whose
\* fetch has been issued (1 .. started), those that have settled, the
\* promises executeWithConcurrency has gone through (1 .. attached, all of
\* them still in its executing array), and the results pushed.
CheckRun(at, total, started, settled, attached, results, pushed) ==
  [pc |-> at, total |-> total, started |-> started, settled |-> settled,
   attached |-> attached, results |-> results, pushed |-> pushed]

NoProbes == CheckRun("idle", 0, 0, {}, 0, {}, 0)
\* RequestDeduplicator: pendingRequests (per key the request whose promise
\* is stored and its timestamp, NoEntry when the key is absent), the
\* requests requestFn has started, in order, and the last deduplicate call.
DedupKeys == {"k1", "k2"}
Entry(id, timestamp) == [id |-> id, timestamp |-> timestamp]
NoEntry == Entry(0, 0)
Started(key, timestamp, status) == [key |-> key, timestamp |-> timestamp, status |-> status]
DedupCall(key, at, invoked, returned, youngBefore) ==
  [key |-> key, at |-> at, invoked |-> invoked, returned |-> returned,
   youngBefore |-> youngBefore]
NoDedupCall == DedupCall("", 0, FALSE, 0, {})
NoDedup ==
  [pendingRequests |-> [k \in DedupKeys |-> NoEntry], requests |-> <<>>,
   last |-> NoDedupCall]

\* no service call is in progress
ServicesIdle ==
  /\ writers = NoWriters
  /\ healthRun = NoHealthRun
  /\ probes = NoProbes
  /\ dedup = NoDedup

\* ----------------------------------------------------------------- Init
\* no request is in flight
NoRequestInFlight ==
  /\ pc = "idle"
  /\ reqCount = 0
  /\ configStore = StoredConfig
  /\ http = NoRequest
  /\ requestId = NoRequestId
  /\ json = NoBody
  /\ chainId = NoChain
  /\ chainConfig = NoChainConfig
  /\ attempt = 0
  /\ lastError = Msg("", 0)
  /\ selectedRPC = NoEndpoint
  /\ upResp = NoResponse
  /\ response = NoResponse
  /\ nCacheReads = 0
  /\ nCacheWrites = 0
  /\ nSelect = 0
  /\ nUpstream = 0
  /\ okAt = {}
  /\ failedAt = {}
  /\ attempted = {}
  /\ sleeps = <<>>
  /\ upReply = NoReply
  /\ cacheFaults = 0
  /\ nConfigReads = 0
  /\ nConfigWrites = 0

Init ==
  /\ NoRequestInFlight
  /\ now = 1000
  /\ cacheEnabled \in BOOLEAN
  /\ cache \in (IF cacheEnabled THEN EarlierCaches ELSE {{}})
  /\ cacheResult = NoCacheResult
  /\ responseTimesMap = NoSamples
  /\ recorded = NoSamples
  /\ picked = NoPick
  /\ failover = NoFailover
  /\ upstreamCall = NoCall
  /\ derived = NoKeys
  /\ reader = NoReader
  /\ ServicesIdle

\* -------------------------------------------------------------- actions
\* handleRequest is entered (lines 41-53)
Receive ==
  /\ pc = "idle"
  /\ reqCount = 0
  /\ \E r \in Requests : http' = r
  /\ reqCount' = reqCount + 1
  /\ requestId' = reqCount + 1
  /\ pc' = "parse"
  /\ UNCHANGED << envVars, cache, configStore, json, chainId, chainConfig, loopVars,
                  response, logVars >>

\* the request has ended with this response
Return(r) ==
  /\ response' = r
  /\ pc' = "done"

\* lines 56-66: read the body and JSON.parse it
Parse ==
  /\ pc = "parse"
  /\ IF http.parses
     THEN /\ json' = http.body
          /\ pc' = "validate"
          /\ UNCHANGED response
     ELSE /\ Return(errorHandlerCreateErrorResponse(
                      ValidationError(Msg("Failed to parse JSON request", 0))))
          /\ UNCHANGED json
  /\ UNCHANGED << reqCount, envVars, cache, configStore, http, requestId, chainId,
                  chainConfig, loopVars, logVars >>

\* lines 68-76
Validate ==
  /\ pc = "validate"
  /\ IF isValidJSONRPC(json)
     THEN /\ pc' = "resolve"
          /\ UNCHANGED response
     ELSE Return(createErrorResponse(INVALID_REQUEST, "Invalid Request",
                                     OrElse(json.id, JNull), requestId))
  /\ UNCHANGED << reqCount, envVars, cache, configStore, http, requestId, json,
                  chainId, chainConfig, loopVars, logVars >>

\* lines 78-88
ResolveChain ==
  /\ pc = "resolve"
  /\ chainId' = extractChainId(http, json)
  /\ IF ChainFalsy(chainId')
     THEN Return(createErrorResponse(CHAIN_NOT_SUPPORTED, "Chain not supported",
                                     json.id, requestId))
     ELSE /\ pc' = "config"
          /\ UNCHANGED response
  /\ UNCHANGED << reqCount, envVars, cache, configStore, http, requestId, json,
                  chainConfig, loopVars, logVars >>

\* lines 90-100, with ConfigService.getConfig, which stores the default
\* configuration when none is stored (a failed save is swallowed there)
LoadChainConfig ==
  /\ pc = "config"
  /\ chainConfig' = getChainConfig(configStore, chainId)
  /\ \E saved \in BOOLEAN :
       configStore' = IF configStore = NoConfig /\ saved THEN DEFAULT_RPC_CONFIG
                      ELSE configStore
  /\ nConfigReads' = nConfigReads + 1
  /\ nConfigWrites' = IF configStore = NoConfig THEN nConfigWrites + 1 ELSE nConfigWrites
  /\ IF chainConfig' = NoChainConfig
     THEN Return(createErrorResponse(CHAIN_NOT_SUPPORTED, "Chain not supported",
                                     json.id, requestId))
     ELSE /\ pc' = "healthy"
          /\ UNCHANGED response
  /\ UNCHANGED << reqCount, envVars, cache, http, requestId, json, chainId, loopVars,
                  nCacheReads, nCacheWrites, nSelect, nUpstream, okAt, failedAt,
                  attempted, sleeps, upReply, cacheFaults >>

\* lines 102-112
CheckHealthy ==
  /\ pc = "healthy"
  /\ IF Len(ActiveRPCs(chainConfig)) = 0
     THEN Return(createErrorResponse(NO_HEALTHY_RPCS, "No healthy RPCs available",
                                     json.id, requestId))
     ELSE /\ pc' = "cache"
          /\ UNCHANGED response
  /\ UNCHANGED << reqCount, envVars, cache, configStore, http, requestId, json,
                  chainId, chainConfig, loopVars, logVars >>

\* the key both the lookup and the write derive for this request
RequestKey ==
  generateCacheKey(ChainKey(chainId), json.method.s, OrElse(json.params, JArr(<<>>)))

\* CacheService.get for the key of the request
CacheGet(kvHolds, fault) == CacheServiceGet(cache, RequestKey, now, kvHolds, fault)

\* whether the lookup of this request reads the store at all
LookupReads == cacheEnabled /\ ~KeyThrows(OrElse(json.params, JArr(<<>>)))

\* lines 114-143 with CacheService.getCachedRPCResponse: where handleRequest
\* stands after the lookup, the Response it has returned if any, the store,
\* the reads made and the errors CacheService swallowed
LookupOutcome(kvHolds, fault) ==
  IF ~cacheEnabled
  THEN [pc |-> "attempt", response |-> response, store |-> cache, reads |-> 0,
        faults |-> 0]
  ELSE IF KeyThrows(OrElse(json.params, JArr(<<>>)))
  THEN [pc |-> "done", response |-> handleRequestCatch, store |-> cache, reads |-> 0,
        faults |-> 0]
  ELSE CHOOSE out \in
         { IF got.hit
           THEN [pc |-> "done",
                 response |-> Resp(HTTP_OK, "cached", 0, "", Msg("", 0), got.data.id,
                                   requestId, TRUE, got.data, FALSE),
                 store |-> got.store, reads |-> 1, faults |-> 0]
           ELSE [pc |-> "attempt", response |-> response, store |-> got.store,
                 reads |-> 1, faults |-> IF got.fault = "none" THEN 0 ELSE 1] :
           got \in {CacheGet(kvHolds, fault)} } : TRUE

CacheLookup ==
  /\ pc = "cache"
  /\ \E kvHolds \in BOOLEAN, fault \in (IF LookupReads THEN GetFaults ELSE {"none"}) :
       \E out \in {LookupOutcome(kvHolds, fault)} :
         /\ pc' = out.pc
         /\ response' = out.response
         /\ cache' = out.store
         /\ nCacheReads' = nCacheReads + out.reads
         /\ cacheFaults' = cacheFaults + out.faults
  /\ UNCHANGED << reqCount, envVars, configStore, http, requestId, json, chainId,
                  chainConfig, loopVars, nCacheWrites, nSelect, nUpstream, okAt,
                  failedAt, attempted, sleeps, upReply, nConfigReads, nConfigWrites >>

\* a loop bound that is off by one (attempt <= maxRetries + 1)
OneMoreRetry == DEFAULT_MAX_RETRIES + 1

\* proxyWithRetries is called with its default maxRetries
maxRetries == DEFAULT_MAX_RETRIES

\* a loop that asks for a failover from the endpoint of the attempt before
selectAvoidingLast(u) ==
  IF selectedRPC = NoEndpoint THEN selectRPC(chainConfig, u)
  ELSE getFailoverRPC(chainConfig, selectedRPC.url, u)

\* line 234: const selectedRPC = RPCSelector.selectRPC(chainConfig)
loopSelectRPC(u) == selectRPC(chainConfig, u)

\* One iteration of the loop of proxyWithRetries (lines 231-282, up to the
\* sleep): selectRPC, makeRPCCall with its cache write, the ok test.
Attempt ==
  /\ pc = "attempt"
  /\ \E u \in SelectDraws(chainConfig), reply \in Replies(json.id), fault \in SetFaults :
       LET rpc == loopSelectRPC(u)
           none == rpc = NoEndpoint
           call == makeRPCCall(cacheEnabled, rpc, reply, json)
           wrote == ~none /\ CallsSet(cacheEnabled, reply, json)
           set == CacheServiceSet(cache, RequestKey, reply.body,
                                  getRPCCacheTTL(json.method.s), now, fault)
           failed == none \/ call.threw \/ ~Ok(call.response.status)
       IN /\ selectedRPC' = IF none THEN selectedRPC ELSE rpc
          /\ nSelect' = nSelect + 1
          /\ nUpstream' = IF none THEN nUpstream ELSE nUpstream + 1
          /\ attempted' = IF none THEN attempted ELSE attempted \cup {rpc.url}
          /\ nCacheWrites' = IF wrote THEN nCacheWrites + 1 ELSE nCacheWrites
          /\ cache' = IF wrote THEN set.store ELSE cache
          /\ cacheFaults' = IF wrote /\ set.fault # "none" THEN cacheFaults + 1
                            ELSE cacheFaults
          /\ IF failed
             THEN /\ lastError' =
                       IF none THEN Msg("No RPC endpoint available", 0)
                       ELSE IF call.threw THEN call.error
                       ELSE Msg("RPC call failed with status: (arg)", call.response.status)
                  /\ failedAt' = failedAt \cup {attempt + 1}
                  /\ IF attempt < maxRetries
                     THEN pc' = "sleep" /\ attempt' = attempt
                     ELSE pc' = "exhausted" /\ attempt' = attempt + 1
                  /\ UNCHANGED << upResp, okAt, upReply >>
             ELSE /\ upResp' = call.response
                  /\ upReply' = reply
                  /\ okAt' = okAt \cup {attempt + 1}
                  /\ pc' = "respond"
                  /\ UNCHANGED << lastError, attempt, failedAt >>
  /\ UNCHANGED << reqCount, envVars, configStore, http, requestId, json, chainId,
                  chainConfig, response, nCacheReads, sleeps, nConfigReads,
                  nConfigWrites >>

\* lines 277-281: the backoff sleep, then the loop's attempt++
Sleep ==
  /\ pc = "sleep"
  /\ sleeps' = Append(sleeps, [after |-> attempt, ms |-> BackoffDelay(attempt)])
  /\ attempt' = attempt + 1
  /\ pc' = "attempt"
  /\ UNCHANGED << reqCount, envVars, cache, configStore, http, requestId, json,
                  chainId, chainConfig, lastError, selectedRPC, upResp, response,
                  nCacheReads, nCacheWrites, nSelect, nUpstream, okAt, failedAt, attempted,
                  upReply, cacheFaults, nConfigReads, nConfigWrites >>

\* lines 285-295: all retries failed
Exhausted ==
  /\ pc = "exhausted"
  /\ upResp' = errorHandlerCreateErrorResponse(NetworkError(lastError))
  /\ pc' = "respond"
  /\ UNCHANGED << reqCount, envVars, cache, configStore, http, requestId, json,
                  chainId, chainConfig, attempt, lastError, selectedRPC, response,
                  logVars >>

\* lines 156-201: new Response(response.body, ...) with X-Request-ID set.  A
\* body stream that has been read cannot be a body again: the constructor
\* throws a TypeError, which the catch block of handleRequest turns into the
\* internal-error response.
Respond ==
  /\ pc = "respond"
  /\ IF upResp.bodyUsed
     THEN Return(handleRequestCatch)
     ELSE Return([upResp EXCEPT !.xRequestId = requestId])
  /\ UNCHANGED << reqCount, envVars, cache, configStore, http, requestId, json,
                  chainId, chainConfig, loopVars, logVars >>

\* the response has been sent; the worker waits for the next request
Complete ==
  /\ pc = "done"
  /\ pc' = "idle"
  /\ http' = NoRequest
  /\ requestId' = NoRequestId
  /\ json' = NoBody
  /\ chainId' = NoChain
  /\ chainConfig' = NoChainConfig
  /\ attempt' = 0
  /\ lastError' = Msg("", 0)
  /\ selectedRPC' = NoEndpoint
  /\ upResp' = NoResponse
  /\ response' = NoResponse
  /\ nCacheReads' = 0
  /\ nCacheWrites' = 0
  /\ nSelect' = 0
  /\ nUpstream' = 0
  /\ okAt' = {}
  /\ failedAt' = {}
  /\ attempted' = {}
  /\ sleeps' = <<>>
  /\ upReply' = NoReply
  /\ cacheFaults' = 0
  /\ nConfigReads' = 0
  /\ nConfigWrites' = 0
  /\ UNCHANGED << reqCount, envVars, cache, configStore >>

Step ==
  \/ Parse
  \/ Validate
  \/ ResolveChain
  \/ LoadChainConfig
  \/ CheckHealthy
  \/ CacheLookup
  \/ Attempt
  \/ Sleep
  \/ Exhausted
  \/ Respond

Next ==
  \/ Receive
  \/ Step
  \/ Complete

Spec == Init /\ [][Next]_vars

\* every await of a request in flight eventually resumes
FairSpec == Spec /\ WF_vars(Step)

\* --------------------------------------------- a request on a fresh store
\* The worker right after its first deployment, constructed without a
\* cache: nothing has been stored under rpc_config.
FreshInit ==
  /\ pc = "idle"
  /\ reqCount = 0
  /\ configStore = NoConfig
  /\ http = NoRequest
  /\ requestId = NoRequestId
  /\ json = NoBody
  /\ chainId = NoChain
  /\ chainConfig = NoChainConfig
  /\ attempt = 0
  /\ lastError = Msg("", 0)
  /\ selectedRPC = NoEndpoint
  /\ upResp = NoResponse
  /\ response = NoResponse
  /\ nCacheReads = 0
  /\ nCacheWrites = 0
  /\ nSelect = 0
  /\ nUpstream = 0
  /\ okAt = {}
  /\ failedAt = {}
  /\ attempted = {}
  /\ sleeps = <<>>
  /\ upReply = NoReply
  /\ cacheFaults = 0
  /\ nConfigReads = 0
  /\ nConfigWrites = 0
  /\ now = 1000
  /\ cacheEnabled = FALSE
  /\ cache = {}
  /\ cacheResult = NoCacheResult
  /\ responseTimesMap = NoSamples
  /\ recorded = NoSamples
  /\ picked = NoPick
  /\ failover = NoFailover
  /\ upstreamCall = NoCall
  /\ derived = NoKeys
  /\ reader = NoReader
  /\ ServicesIdle

FreshSpec == FreshInit /\ [][Next]_vars

\* ------------------------------------------- CacheService on its own
\* The calls CacheService takes, made one after the other while time
\* passes: set and get with every fault the store and the codec can raise.
MaxTicks == 2

CacheKeys == {"rpc:a", "rpc:b"}

\* payloads whose serialized entry is 1023 and 1024 characters long
SmallValue == UpBody("rpc", JNum("1"), FALSE, "hex962")
LargeValue == UpBody("rpc", JNum("1"), FALSE, "hex963")
CacheValues == {SmallValue, LargeValue}

\* ttl arguments, in seconds; 0 stands for an omitted ttl
CacheTtls == {0, 1, 60}

requestVars ==
  << pc, reqCount, configStore, http, requestId, json, chainId, chainConfig, loopVars,
     response, logVars >>

CacheInit ==
  /\ NoRequestInFlight
  /\ now = 1000
  /\ cacheEnabled = TRUE
  /\ cache = {}
  /\ cacheResult = NoCacheResult
  /\ responseTimesMap = NoSamples
  /\ recorded = NoSamples
  /\ picked = NoPick
  /\ failover = NoFailover
  /\ upstreamCall = NoCall
  /\ derived = NoKeys
  /\ reader = NoReader
  /\ ServicesIdle

\* CacheService.set(key, value, ttl)
SetCall ==
  /\ \E key \in CacheKeys, value \in CacheValues, ttl \in CacheTtls,
        fault \in SetFaults :
       \E out \in {CacheServiceSet(cache, key, value, ttl, now, fault)} :
         /\ cache' = out.store
         /\ cacheResult' = CallResult("set", key, value, ttl, now, fault, out)
  /\ UNCHANGED << now, cacheEnabled, selectorVars, requestVars, aloneVars >>

\* CacheService.get(key)
GetCall ==
  /\ \E key \in CacheKeys, kvHolds \in BOOLEAN,
        fault \in GetFaults :
       \E out \in {CacheServiceGet(cache, key, now, kvHolds, fault)} :
         /\ cache' = out.store
         /\ cacheResult' = CallResult("get", key, NoUpBody, 0, now, fault, out)
  /\ UNCHANGED << now, cacheEnabled, selectorVars, requestVars, aloneVars >>

\* a second passes
Tick ==
  /\ now < 1000 + MaxTicks * 1000
  /\ now' = now + 1000
  /\ UNCHANGED << cache, cacheEnabled, cacheResult, selectorVars, requestVars, aloneVars >>

CacheNext ==
  \/ SetCall
  \/ GetCall
  \/ Tick

CacheSpec == CacheInit /\ [][CacheNext]_vars

\* ------------------------------ configuration mutations that overlap
\* updateRPCStatus calls the health check makes
HealthOps ==
  { Op("updateRPCStatus", key, url, isActive, <<>>) :
      key \in {"1", "56"}, url \in {"a", "c", "d"}, isActive \in BOOLEAN }

\* mutations the admin routes make
AdminOps ==
  { Op("addRPCEndpoint", key, "", FALSE, << Endpoint("f", 1, 5000, TRUE) >>) :
      key \in {"1", "9"} }
  \cup { Op("removeRPCEndpoint", "1", url, FALSE, <<>>) : url \in {"a", "b", "zz"} }
  \cup { Op("updateChainConfig", "1", "", FALSE,
             << Endpoint("a", 5, 30000, TRUE), Endpoint("c", 1, 5000, FALSE) >>),
          Op("updateChainConfig", "56", "", FALSE,
             << Endpoint("d", 1, 30000, TRUE), Endpoint("g", 1, 30000, TRUE) >>) }

OpsOf(w) == IF w = "health" THEN HealthOps ELSE AdminOps

\* const config = await this.getConfig() of a mutation
Loads(w) ==
  /\ writers[w].pc = "idle"
  /\ \E op \in OpsOf(w) :
       writers' = [writers EXCEPT ![w] = Writer("loaded", op, getConfig(configStore))]
  /\ UNCHANGED configStore

\* the mutation of the copy, then await this.saveConfig(config)
Saves(w) ==
  /\ writers[w].pc = "loaded"
  /\ \E out \in {Apply(writers[w].op, writers[w].config)} :
       /\ configStore' = IF out.threw THEN configStore ELSE out.config
       /\ writers' = [writers EXCEPT ![w].pc = IF out.threw THEN "failed" ELSE "saved"]

MutationFrame ==
  UNCHANGED << pc, reqCount, http, requestId, json, chainId, chainConfig, loopVars,
               response, logVars, cache, now, cacheEnabled, cacheResult, selectorVars,
               upstreamCall, derived, reader, healthRun, probes, dedup >>

HealthLoads == Loads("health") /\ MutationFrame
HealthSaves == Saves("health") /\ MutationFrame
AdminLoads == Loads("admin") /\ MutationFrame
AdminSaves == Saves("admin") /\ MutationFrame

MutationNext ==
  \/ HealthLoads
  \/ HealthSaves
  \/ AdminLoads
  \/ AdminSaves

MutationSpec == CacheInit /\ [][MutationNext]_vars

\* ------------------------------------------ the periodic health check
\* a collection loop that probes the active endpoints only
ActiveEndpointsOf(config) ==
  UNION { { [key |-> c.key, i |-> i] : i \in {j \in 1 .. Len(c.rpcs) : c.rpcs[j].isActive} } :
          c \in config }

\* checkAllHealth, lines 121-131: one probe for every rpc of every chain
EndpointsOf(config) ==
  UNION { { [key |-> c.key, i |-> i] : i \in 1 .. Len(c.rpcs) } : c \in config }

\* a HealthCheckResult: chainId, url, isHealthy
HealthCheckResult(cid, url, isHealthy) ==
  [chainId |-> cid, url |-> url, isHealthy |-> isHealthy]

\* the key config.chains[result.chainId] reads, "" when there is none
KeyOf(config, cid) ==
  LET hits == {c.key : c \in {x \in config : Chars(x.key) = ChainKey(cid)}}
  IN IF hits = {} THEN "" ELSE CHOOSE k \in hits : TRUE

HealthFrame ==
  UNCHANGED << pc, reqCount, http, requestId, json, chainId, chainConfig, loopVars,
               response, logVars, cache, now, cacheEnabled, cacheResult, selectorVars,
               upstreamCall, derived, reader, writers, probes, dedup >>

\* checkAllHealth reads the configuration and starts every probe
CheckAllHealth ==
  /\ healthRun.pc = "idle"
  /\ \E config \in {getConfig(configStore)} :
       healthRun' = HealthRun("probing", config, EndpointsOf(config), <<>>, 0)
  /\ UNCHANGED configStore
  /\ HealthFrame

\* a checkRPCHealth settles, healthy or not; it never rejects
ProbeSettles ==
  /\ healthRun.pc = "probing"
  /\ \E e \in healthRun.pending, isHealthy \in BOOLEAN :
       LET chain == CHOOSE c \in ChainsAt(healthRun.config, e.key) : TRUE
       IN healthRun' =
            [healthRun EXCEPT
               !.pending = @ \ {e},
               !.results = Append(@, HealthCheckResult(CoerceChain(e.key),
                                                       chain.rpcs[e.i].url, isHealthy))]
  /\ UNCHANGED configStore
  /\ HealthFrame

\* every probe has settled: saveHealthResults, then updateRPCStatus begins
SaveHealthResults ==
  /\ healthRun.pc = "probing"
  /\ healthRun.pending = {}
  /\ healthRun' = [healthRun EXCEPT !.pc = "updating", !.next = 1]
  /\ UNCHANGED configStore
  /\ HealthFrame

\* one iteration of HealthService.updateRPCStatus: a whole
\* ConfigService.updateRPCStatus, whose error is caught and logged
UpdateStatus ==
  /\ healthRun.pc = "updating"
  /\ healthRun.next <= Len(healthRun.results)
  /\ \E result \in {healthRun.results[healthRun.next]} :
       \E out \in {updateRPCStatus(getConfig(configStore),
                                    KeyOf(getConfig(configStore), result.chainId),
                                    result.url, result.isHealthy)} :
         configStore' = IF out.threw THEN configStore ELSE out.config
  /\ healthRun' = [healthRun EXCEPT !.next = @ + 1]
  /\ HealthFrame

\* the loop has ended and runPeriodicHealthCheck logs its summary
HealthCheckCompleted ==
  /\ healthRun.pc = "updating"
  /\ healthRun.next > Len(healthRun.results)
  /\ healthRun' = [healthRun EXCEPT !.pc = "done"]
  /\ UNCHANGED configStore
  /\ HealthFrame

HealthNext ==
  \/ CheckAllHealth
  \/ ProbeSettles
  \/ SaveHealthResults
  \/ UpdateStatus
  \/ HealthCheckCompleted

HealthSpec == CacheInit /\ [][HealthNext]_vars

\* ------------------------------------- checkAllHealth and its probes
\* executeWithConcurrency(allHealthChecks, 10)
CONCURRENCY == 10

\* Bound of the model: the configuration has up to MaxEndpoints endpoints
MaxEndpoints == 12

ProbeFrame ==
  UNCHANGED << pc, reqCount, configStore, http, requestId, json, chainId, chainConfig,
               loopVars, response, logVars, cache, now, cacheEnabled, cacheResult,
               selectorVars, upstreamCall, derived, reader, writers, healthRun, dedup >>

\* checkAllHealth has read a configuration of total endpoints
ReadEndpoints ==
  /\ probes.pc = "idle"
  /\ \E total \in 1 .. MaxEndpoints :
       probes' = CheckRun("collecting", total, 0, {}, 0, {}, 0)
  /\ ProbeFrame

\* line 129: allHealthChecks.push(this.checkRPCHealth(chainId, rpc)); the
\* call runs to its await fetch(...), so the probe is in flight
StartProbe ==
  /\ probes.pc = "collecting"
  /\ probes.started < probes.total
  /\ probes' = [probes EXCEPT !.started = @ + 1]
  /\ ProbeFrame

\* line 134: executeWithConcurrency is entered
EnterExecute ==
  /\ probes.pc = "collecting"
  /\ probes.started = probes.total
  /\ probes' = [probes EXCEPT !.pc = "attaching"]
  /\ ProbeFrame

\* lines 148-155: one iteration of the loop up to its test; the callback of
\* a promise that has settled already pushes its result
AttachPromise ==
  /\ probes.pc = "attaching"
  /\ probes.attached < probes.total
  /\ LET k == probes.attached + 1
         done == k \in probes.settled
     IN probes' = [probes EXCEPT
                     !.attached = k,
                     !.results = IF done THEN @ \cup {k} ELSE @,
                     !.pushed = IF done THEN @ + 1 ELSE @,
                     !.pc = IF k >= CONCURRENCY THEN "racing" ELSE "attaching"]
  /\ ProbeFrame

\* lines 156-163: await Promise.race(executing) resumes once one of the
\* promises has settled; the filter's callback returns a promise, which is
\* truthy, so executing keeps every promise
RaceResumes ==
  /\ probes.pc = "racing"
  /\ probes.settled \cap (1 .. probes.attached) # {}
  /\ probes' = [probes EXCEPT !.pc = "attaching"]
  /\ ProbeFrame

\* line 167: await Promise.all(executing)
AwaitAll ==
  /\ probes.pc = "attaching"
  /\ probes.attached = probes.total
  /\ probes' = [probes EXCEPT !.pc = "joining"]
  /\ ProbeFrame

\* a probe settles while executeWithConcurrency is suspended
FetchSettles ==
  /\ probes.pc \in {"racing", "joining"}
  /\ \E i \in (1 .. probes.started) \ probes.settled :
       LET attachedAlready == i <= probes.attached
       IN probes' = [probes EXCEPT
                       !.settled = @ \cup {i},
                       !.results = IF attachedAlready THEN @ \cup {i} ELSE @,
                       !.pushed = IF attachedAlready THEN @ + 1 ELSE @]
  /\ ProbeFrame

\* line 168: return results
ReturnResults ==
  /\ probes.pc = "joining"
  /\ (1 .. probes.attached) \subseteq probes.settled
  /\ probes' = [probes EXCEPT !.pc = "returned"]
  /\ ProbeFrame

ProbeNext ==
  \/ ReadEndpoints
  \/ StartProbe
  \/ EnterExecute
  \/ AttachPromise
  \/ RaceResumes
  \/ AwaitAll
  \/ FetchSettles
  \/ ReturnResults

ProbeSpec == CacheInit /\ [][ProbeNext]_vars

\* ------------------------------------------------ RequestDeduplicator
\* constructor(maxAge: number = 30000)
MAX_AGE == 30000

\* Bounds of the model: requestFn is started at most MaxStarted times, and
\* the clock advances by half of maxAge at most MaxAgeTicks times
MaxStarted == 3
MaxAgeTicks == 4

\* the requests of a key that are in flight and younger than maxAge at time t
YoungInFlight(key, t) ==
  { id \in 1 .. Len(dedup.requests) :
      /\ dedup.requests[id].key = key
      /\ dedup.requests[id].status = "inflight"
      /\ t - dedup.requests[id].timestamp < MAX_AGE }

DedupFrame ==
  UNCHANGED << pc, reqCount, configStore, http, requestId, json, chainId, chainConfig,
               loopVars, response, logVars, cache, cacheEnabled, cacheResult,
               selectorVars, upstreamCall, derived, reader, writers, healthRun, probes >>

\* a finally callback that deletes the key only while it holds the promise
\* of the request that completed
deleteOwnEntry(pendingRequests, key, id) ==
  [pendingRequests EXCEPT ![key] = IF @.id = id THEN NoEntry ELSE @]

\* lines 42-45: this.pendingRequests.delete(key)
finallyDelete(pendingRequests, key, id) == [pendingRequests EXCEPT ![key] = NoEntry]

\* deduplicate(key, requestFn), lines 23-53
Deduplicate ==
  /\ \E key \in DedupKeys :
       LET pending == dedup.pendingRequests[key]
           shared == pending # NoEntry /\ now - pending.timestamp < MAX_AGE
           id == Len(dedup.requests) + 1
       IN /\ shared \/ id <= MaxStarted
          /\ dedup' =
               IF shared
               THEN [dedup EXCEPT
                       !.last = DedupCall(key, now, FALSE, pending.id,
                                          YoungInFlight(key, now))]
               ELSE [pendingRequests |->
                       [dedup.pendingRequests EXCEPT ![key] = Entry(id, now)],
                     requests |-> Append(dedup.requests, Started(key, now, "inflight")),
                     last |-> DedupCall(key, now, TRUE, id, YoungInFlight(key, now))]
  /\ UNCHANGED now
  /\ DedupFrame

\* the promise of a request settles and its finally callback runs
RequestSettles ==
  /\ \E id \in 1 .. Len(dedup.requests), outcome \in {"resolved", "rejected"} :
       /\ dedup.requests[id].status = "inflight"
       /\ dedup' = [dedup EXCEPT
                      !.requests[id].status = outcome,
                      !.pendingRequests =
                        finallyDelete(@, dedup.requests[id].key, id)]
  /\ UNCHANGED now
  /\ DedupFrame

\* cleanup(), lines 72-79
Cleanup ==
  /\ dedup' = [dedup EXCEPT
                 !.pendingRequests =
                   [k \in DedupKeys |->
                      IF @[k] # NoEntry /\ now - @[k].timestamp > MAX_AGE
                      THEN NoEntry ELSE @[k]]]
  /\ UNCHANGED now
  /\ DedupFrame

\* half of maxAge passes
AgeTick ==
  /\ now < 1000 + MaxAgeTicks * (MAX_AGE \div 2)
  /\ now' = now + MAX_AGE \div 2
  /\ UNCHANGED dedup
  /\ DedupFrame

DedupNext ==
  \/ Deduplicate
  \/ RequestSettles
  \/ Cleanup
  \/ AgeTick

DedupSpec == CacheInit /\ [][DedupNext]_vars

\* ------------------------------------- a get interleaved with other sets
\* CacheService.get suspends at its two awaits, the store read and the
\* delete of an expired entry; the sets of other requests and the clock run
\* in between.
\* await this.cache.getWithMetadata(cacheKey): the read is served from the
\* store as it is now
GetReads ==
  /\ reader.pc \in {"idle", "returned", "deleted"}
  /\ \E key \in CacheKeys, kvHolds \in BOOLEAN :
       reader' = Reader("read", key,
                        {r \in KVGet(cache, key) : now < r.expiresAt \/ kvHolds}, FALSE)
  /\ UNCHANGED << now, cache, cacheEnabled, cacheResult, selectorVars, requestVars,
                  upstreamCall, derived, serviceVars >>

\* get resumes with what it read: a miss, a hit, or an entry its expiry
\* check finds expired, for which this.delete(key) is called
GetChecks ==
  /\ reader.pc = "read"
  /\ \E out \in {CacheServiceGet(reader.seen, reader.key, now, TRUE, "none")} :
       reader' = Reader(IF out.result = "expired" THEN "deleting" ELSE "returned",
                        reader.key, reader.seen, out.hit)
  /\ UNCHANGED << now, cache, cacheEnabled, cacheResult, selectorVars, requestVars,
                  upstreamCall, derived, serviceVars >>

\* await this.cache.delete(cacheKey) takes effect
GetDeletes ==
  /\ reader.pc = "deleting"
  /\ cache' = CacheServiceDelete(cache, reader.key, "none").store
  /\ reader' = Reader("deleted", reader.key, reader.seen, FALSE)
  /\ UNCHANGED << now, cacheEnabled, cacheResult, selectorVars, requestVars,
                  upstreamCall, derived, serviceVars >>

\* ttl arguments of the other requests' sets, in seconds
RaceTtls == {1, 60}

\* another request's CacheService.set(key, value, ttl) runs to its end
OtherSets ==
  /\ \E key \in CacheKeys, ttl \in RaceTtls :
       \E out \in {CacheServiceSet(cache, key, SmallValue, ttl, now, "none")} :
         /\ cache' = out.store
         /\ cacheResult' = CallResult("set", key, SmallValue, ttl, now, "none", out)
  /\ UNCHANGED << now, cacheEnabled, selectorVars, requestVars, aloneVars >>

RaceNext ==
  \/ OtherSets
  \/ Tick
  \/ GetReads
  \/ GetChecks
  \/ GetDeletes

RaceSpec == CacheInit /\ [][RaceNext]_vars

\* ---------------------------------------------- the selectors on their own
\* Chains a selection is asked for: the stored chain 1 (two active, one
\* inactive), a chain with no active endpoint, one whose only active
\* endpoint has priority 0, one that lists a priority-0 endpoint first, one
\* with priorities 10 and 5, and one with three equal endpoints.
SelectorChains ==
  { Chain("1", << Endpoint("a", 2, 30000, TRUE), Endpoint("b", 1, 5000, TRUE),
                  Endpoint("c", 1, 5000, FALSE) >>),
    Chain("137", << Endpoint("a", 1, 30000, FALSE), Endpoint("b", 3, 30000, FALSE) >>),
    Chain("5", << Endpoint("c", 5, 30000, FALSE), Endpoint("a", 0, 30000, TRUE) >>),
    Chain("6", << Endpoint("a", 0, 30000, TRUE), Endpoint("b", 1, 30000, TRUE) >>),
    Chain("10", << Endpoint("a", 10, 30000, TRUE), Endpoint("b", 5, 30000, TRUE) >>),
    Chain("3", << Endpoint("a", 1, 30000, TRUE), Endpoint("b", 1, 30000, TRUE),
                  Endpoint("c", 1, 30000, TRUE) >>) }

\* Latency windows recordResponseTime can have left: none; a slow (1000 ms)
\* and b fast (50 ms); a at an average of 100 ms; a beyond the clamp
\* (2000 ms) and c at 0 ms.
LatencyStates ==
  { NoSamples,
    ("a" :> <<1000>>) @@ ("b" :> <<50>>),
    ("a" :> <<50, 150>>),
    ("a" :> <<2000>>) @@ ("c" :> <<0>>) }

SelectorInit ==
  /\ NoRequestInFlight
  /\ now = 1000
  /\ cacheEnabled = FALSE
  /\ cache = {}
  /\ cacheResult = NoCacheResult
  /\ responseTimesMap \in LatencyStates
  /\ recorded = responseTimesMap
  /\ picked = NoPick
  /\ failover = NoFailover
  /\ upstreamCall = NoCall
  /\ derived = NoKeys
  /\ reader = NoReader
  /\ ServicesIdle

\* RPCSelector.selectRPC of rpc_selector.ts
SelectSimple ==
  /\ \E chain \in SelectorChains :
       \E u \in SelectDraws(chain) :
         picked' = Pick("simple", chain, u, selectRPC(chain, u))
  /\ UNCHANGED << now, cacheEnabled, cache, cacheResult, responseTimesMap, recorded,
                  failover, requestVars, aloneVars >>

\* RPCSelector.selectRPC of the performance-tracking selector
SelectTracked ==
  /\ \E chain \in SelectorChains :
       \E u \in TrackedDraws(responseTimesMap, chain) :
         picked' = Pick("tracked", chain, u, trackedSelectRPC(responseTimesMap, chain, u))
  /\ UNCHANGED << now, cacheEnabled, cache, cacheResult, responseTimesMap, recorded,
                  failover, requestVars, aloneVars >>

SelectorNext ==
  \/ SelectSimple
  \/ SelectTracked

SelectorSpec == SelectorInit /\ [][SelectorNext]_vars

\* ------------------------------------------------- failover on its own
\* the url a caller names as failed: an endpoint of the chain or another url
FailedUrls == {"a", "b", "c", "x"}

\* RPCSelector.getFailoverRPC of rpc_selector.ts
FailoverSimple ==
  /\ \E chain \in SelectorChains, failedRPCUrl \in FailedUrls :
       \E u \in FailoverDraws(chain, failedRPCUrl) :
         failover' = Failover("simple", chain, failedRPCUrl, u,
                              getFailoverRPC(chain, failedRPCUrl, u))
  /\ UNCHANGED << now, cacheEnabled, cache, cacheResult, responseTimesMap, recorded,
                  picked, requestVars, aloneVars >>

\* RPCSelector.getFailoverRPC of the performance-tracking selector
FailoverTracked ==
  /\ \E chain \in SelectorChains, failedRPCUrl \in FailedUrls :
       \E u \in TrackedFailoverDraws(responseTimesMap, chain, failedRPCUrl) :
         failover' = Failover("tracked", chain, failedRPCUrl, u,
                              trackedGetFailoverRPC(responseTimesMap, chain, failedRPCUrl, u))
  /\ UNCHANGED << now, cacheEnabled, cache, cacheResult, responseTimesMap, recorded,
                  picked, requestVars, aloneVars >>

FailoverNext ==
  \/ FailoverSimple
  \/ FailoverTracked

FailoverSpec == SelectorInit /\ [][FailoverNext]_vars

\* ------------------------------------------- the latency windows on their own
\* recordResponseTime called for two endpoints in any order
MaxRecorded == 11

SampleValues == {1, 2}

LatencyInit ==
  /\ NoRequestInFlight
  /\ now = 1000
  /\ cacheEnabled = FALSE
  /\ cache = {}
  /\ cacheResult = NoCacheResult
  /\ responseTimesMap = NoSamples
  /\ recorded = NoSamples
  /\ picked = NoPick
  /\ failover = NoFailover
  /\ upstreamCall = NoCall
  /\ derived = NoKeys
  /\ reader = NoReader
  /\ ServicesIdle

\* the samples recorded so far, over all urls
RECURSIVE TotalRecorded(_)
TotalRecorded(urls) ==
  IF urls = {} THEN 0
  ELSE LET u == CHOOSE x \in urls : TRUE
       IN Len(recorded[u]) + TotalRecorded(urls \ {u})

\* RPCSelector.recordResponseTime(rpcUrl, responseTime)
Record ==
  /\ TotalRecorded(DOMAIN recorded) < MaxRecorded
  /\ \E url \in {"a", "b"}, responseTime \in SampleValues :
       /\ responseTimesMap' = recordResponseTime(responseTimesMap, url, responseTime)
       /\ recorded' = [u \in DOMAIN recorded \cup {url} |->
                         IF u = url THEN Append(SamplesOf(recorded, url), responseTime)
                         ELSE recorded[u]]
  /\ UNCHANGED << now, cacheEnabled, cache, cacheResult, picked, failover, requestVars, aloneVars >>

LatencyNext == Record

LatencySpec == LatencyInit /\ [][LatencyNext]_vars

\* ------------------------------------------- chain resolution on its own
\* url.pathname as its non-empty segments: /, /rpc, /56, /rpc/137, /sol, /56x
ResolvePaths == { <<>>, <<"rpc">>, <<"56">>, <<"rpc", "137">>, <<"sol">>, <<"56x">> }

\* url.searchParams.get('chainId') and get('chain'): null when the parameter
\* is not in the query, its text otherwise
QueryChainIds == { JNull, JStr(""), JStr("56"), JStr("sol"), JStr("56x") }
QueryChains == { JNull, JStr("137") }

\* jsonRPCRequest.params: absent, lists without and with an object that has
\* a chainId member (first or second in the list, decimal, hexadecimal or
\* null), and a by-name object
ResolveParams ==
  { Undefined,
    JArr(<<>>),
    JArr(<< JStr("0xa") >>),
    JArr(<< JObj(<< Member("chainId", JNum("9")) >>) >>),
    JArr(<< JStr("0xa"), JObj(<< Member("to", JStr("0xa")), Member("chainId", JStr("0x38")) >>) >>),
    JArr(<< JObj(<< Member("to", JStr("0xa")) >>), JObj(<< Member("chainId", JNum("9")) >>) >>),
    JArr(<< JObj(<< Member("chainId", JNull) >>) >>),
    JObj(<< Member("chainId", JNum("9")) >>) }

ResolveInit ==
  /\ NoRequestInFlight
  /\ now = 1000
  /\ cacheEnabled = FALSE
  /\ cache = {}
  /\ cacheResult = NoCacheResult
  /\ responseTimesMap = NoSamples
  /\ recorded = NoSamples
  /\ picked = NoPick
  /\ failover = NoFailover
  /\ upstreamCall = NoCall
  /\ derived = NoKeys
  /\ reader = NoReader
  /\ ServicesIdle

\* ProxyService.extractChainId(request, jsonRPCRequest)
ExtractChain ==
  /\ \E path \in ResolvePaths, qChainId \in QueryChainIds, qChain \in QueryChains,
        params \in ResolveParams :
       LET body == Body("obj", JStr("2.0"), JStr("eth_blockNumber"), JNum("1"), params)
           request == Request(TRUE, body, path, qChainId, qChain)
       IN /\ http' = request
          /\ json' = body
          /\ chainId' = extractChainId(request, body)
  /\ UNCHANGED << pc, reqCount, configStore, requestId, chainConfig, loopVars, response,
                  logVars, cache, envVars >>

ResolveNext == ExtractChain

ResolveSpec == ResolveInit /\ [][ResolveNext]_vars

\* ------------------------------------------------ one upstream call in time
\* how long the call is followed, in ticks
MaxElapsed == 4

\* selectedRPC.timeout, in ticks
CallTimeouts == {1, 2}

\* lines 303-334: arm the timer, start the fetch
StartCall ==
  /\ upstreamCall.pc = "idle"
  /\ \E timeout \in CallTimeouts :
       upstreamCall' =
         Call("fetching", timeout, 0, "armed", "connecting", FALSE, FALSE, -1, "none")
  /\ UNCHANGED << now, cacheEnabled, cache, cacheResult, selectorVars, requestVars,
                  derived, reader, serviceVars >>

\* time passes while the call or its body is outstanding; a due timer runs
\* before time moves on
Elapse ==
  /\ upstreamCall.pc \in {"fetching", "reading"} \/ upstreamCall.upstream = "streaming"
  /\ upstreamCall.elapsed < MaxElapsed
  /\ ~(upstreamCall.timer = "armed" /\ upstreamCall.elapsed >= upstreamCall.timeout)
  /\ upstreamCall' = [upstreamCall EXCEPT !.elapsed = @ + 1]
  /\ UNCHANGED << now, cacheEnabled, cache, cacheResult, selectorVars, requestVars,
                  derived, reader, serviceVars >>

\* lines 305, 411-413: the timer fires, controller.abort() rejects the fetch
\* with an AbortError, the catch block throws TimeoutError
TimerFires ==
  /\ upstreamCall.pc = "fetching"
  /\ upstreamCall.timer = "armed"
  /\ upstreamCall.elapsed >= upstreamCall.timeout
  /\ upstreamCall' = [upstreamCall EXCEPT !.pc = "threw", !.timer = "fired",
                                          !.upstream = "aborted", !.outcome = "timeout"]
  /\ UNCHANGED << now, cacheEnabled, cache, cacheResult, selectorVars, requestVars,
                  derived, reader, serviceVars >>

\* lines 329, 395-415: the fetch rejects with a network error
FetchFails ==
  /\ upstreamCall.pc = "fetching"
  /\ upstreamCall' = [upstreamCall EXCEPT !.pc = "threw", !.timer = "cleared",
                                          !.upstream = "failed", !.outcome = "neterr"]
  /\ UNCHANGED << now, cacheEnabled, cache, cacheResult, selectorVars, requestVars,
                  derived, reader, serviceVars >>

\* lines 329-339, 393: the fetch resolves when status and headers are in;
\* clearTimeout; with a JSON content type the body is awaited, otherwise the
\* response is returned as it is, its body still to come
HeadersArrive ==
  /\ upstreamCall.pc = "fetching"
  /\ \E ctJson \in BOOLEAN, ok \in BOOLEAN :
       upstreamCall' = [upstreamCall EXCEPT !.pc = IF ctJson THEN "reading" ELSE "returned",
                                            !.timer = "cleared", !.upstream = "streaming",
                                            !.ctJson = ctJson, !.ok = ok,
                                            !.outcome = IF ctJson THEN "none" ELSE "response"]
  /\ UNCHANGED << now, cacheEnabled, cache, cacheResult, selectorVars, requestVars,
                  derived, reader, serviceVars >>

\* lines 340, 379-393: the last byte of the body arrives; response.text()
\* resolves if it was awaited, and makeRPCCall returns
BodyArrives ==
  /\ upstreamCall.upstream = "streaming"
  /\ upstreamCall' = [upstreamCall EXCEPT
                        !.upstream = "finished", !.finishedAt = upstreamCall.elapsed,
                        !.pc = IF upstreamCall.pc = "reading" THEN "returned" ELSE @,
                        !.outcome = IF upstreamCall.pc = "reading" THEN "response" ELSE @]
  /\ UNCHANGED << now, cacheEnabled, cache, cacheResult, selectorVars, requestVars,
                  derived, reader, serviceVars >>

\* proxyWithRetries, lines 238-280: an ok response is returned to the
\* caller; any other response and any throw count as a failed attempt, and
\* the loop goes on to the next one
AfterCall ==
  /\ upstreamCall.pc \in {"returned", "threw"}
  /\ upstreamCall' = [upstreamCall EXCEPT
                        !.pc = IF upstreamCall.outcome = "response" /\ upstreamCall.ok
                               THEN "answered" ELSE "retrying"]
  /\ UNCHANGED << now, cacheEnabled, cache, cacheResult, selectorVars, requestVars,
                  derived, reader, serviceVars >>

CallNext ==
  \/ StartCall
  \/ Elapse
  \/ TimerFires
  \/ FetchFails
  \/ HeadersArrive
  \/ BodyArrives
  \/ AfterCall

CallInit == ResolveInit

CallSpec == CallInit /\ [][CallNext]_vars

\* ------------------------------------------------- cache keys on their own
\* chainId.toString() and the method of the request
KeyChains == {"1", "56"}
KeyMethods == {"eth_call", "eth_getBalance"}

\* params as generateCacheKey is given them: absent, the empty list, lists
\* of strings, numbers and null, and lists of one object with two members in
\* either insertion order
KeyParams ==
  { Undefined,
    JArr(<<>>),
    JArr(<< JStr("a|b") >>),
    JArr(<< JStr("a"), JStr("b") >>),
    JArr(<< JNum("1") >>),
    JArr(<< JStr("1") >>),
    JArr(<< JNull >>),
    JArr(<< JStr("null") >>),
    JArr(<< JObj(<< Member("to", JStr("0xa")), Member("chainId", JNum("9")) >>) >>),
    JArr(<< JObj(<< Member("chainId", JNum("9")), Member("to", JStr("0xa")) >>) >>) }

\* generateCacheKey(chainId, method, params), as called by cacheRPCResponse
\* and getCachedRPCResponse
DeriveKey ==
  /\ \E chain \in KeyChains, method \in KeyMethods, params \in KeyParams :
       LET d == Derivation(chain, method, params,
                           generateCacheKey(Chars(chain), method, params))
       IN derived' = IF derived = <<>> THEN <<d>> ELSE << derived[Len(derived)], d >>
  /\ UNCHANGED << now, cacheEnabled, cache, cacheResult, selectorVars, requestVars,
                  upstreamCall, reader, serviceVars >>

KeyNext == DeriveKey

KeyInit == ResolveInit

KeySpec == KeyInit /\ [][KeyNext]_vars

\* ------------------------------------------------------------ properties
\* C1: a request that reaches the attempt loop makes at most max_retries + 1
\* upstream attempts: k of them when the k-th is the first whose response is
\* ok (all before it failed, none follows it), and max_retries + 1 when
\* every attempt fails, in which case the terminal network error is returned.
C1_AttemptCount ==
  /\ nUpstream <= DEFAULT_MAX_RETRIES + 1
  /\ okAt # {} => okAt = {nUpstream} /\ failedAt = 1 .. (nUpstream - 1)
  /\ okAt = {} => failedAt = 1 .. nUpstream
  /\ (pc = "done" /\ nUpstream > 0 /\ okAt = {}) =>
       /\ nUpstream = DEFAULT_MAX_RETRIES + 1
       /\ response.fmt = "app"
       /\ response.codeName = "NETWORK_ERROR"

\* every attempt of a request has failed and the network error is returned
C1_AllAttemptsFailed ==
  /\ pc = "done"
  /\ failedAt = 1 .. 4
  /\ nUpstream = 4
  /\ response.codeName = "NETWORK_ERROR"

\* C2: the k-th sleep of a request follows the failed attempt of index k - 1
\* and lasts RETRY_BASE_DELAY * 2^(k-1) ms (base*1, base*2, base*4); exactly
\* one sleep separates two consecutive attempts, and there is none before the
\* first attempt, after an ok attempt or after the last failed attempt.
C2_BackoffDelays ==
  /\ Len(sleeps) <= DEFAULT_MAX_RETRIES
  /\ \A k \in 1 .. Len(sleeps) :
       /\ sleeps[k].after = k - 1
       /\ sleeps[k].ms = RETRY_BASE_DELAY * << 1, 2, 4 >>[k]
       /\ k \in failedAt
  /\ nUpstream = 0 => sleeps = << >>
  /\ nUpstream > 0 =>
       Len(sleeps) = IF pc = "attempt" THEN nUpstream ELSE nUpstream - 1

\* the three sleeps of a request whose four attempts all failed
C2_ThreeSleeps ==
  /\ pc = "done"
  /\ nUpstream = 4
  /\ sleeps = << [after |-> 0, ms |-> 1000], [after |-> 1, ms |-> 2000],
                 [after |-> 2, ms |-> 4000] >>

\* the chain configuration of the request holds endpoints, none active
NoneActive ==
  /\ chainConfig # NoChainConfig
  /\ \A i \in 1 .. Len(chainConfig.rpcs) : ~chainConfig.rpcs[i].isActive

\* C3: when the configuration of the resolved chain has no active endpoint,
\* selectRPC returns null for it and the request ends with the "no healthy
\* RPCs" error, with no selection, no upstream call and no backoff sleep.
C3_NoHealthyRPCs ==
  NoneActive =>
    /\ \A u \in SelectDraws(chainConfig) : selectRPC(chainConfig, u) = NoEndpoint
    /\ nSelect = 0 /\ nUpstream = 0 /\ sleeps = << >> /\ failedAt = {}
    /\ pc \in {"healthy", "done"}
    /\ pc = "done" =>
         /\ response.fmt = "jsonrpc"
         /\ response.status = HTTP_OK
         /\ response.code = CODE_NO_HEALTHY_RPCS
         /\ response.message = Msg("No healthy RPCs available", 0)

\* a request for chain 137, whose only endpoint is inactive, has been answered
C3_InactiveChainAnswered ==
  /\ pc = "done"
  /\ NoneActive
  /\ chainConfig.rpcs # << >>
  /\ response.code = CODE_NO_HEALTHY_RPCS

\* a cache read, a cache write, a selection or an upstream call has happened
\* for the request in flight
Accessed == nCacheReads > 0 \/ nCacheWrites > 0 \/ nSelect > 0 \/ nUpstream > 0

\* the response of the "Invalid Request" exit of handleRequest
IsInvalidRequest(r) == r.fmt = "jsonrpc" /\ r.message = Msg("Invalid Request", 0)

\* {"jsonrpc":"2.0","method":"eth_blockNumber","id":1}
BlockNumberNoParams ==
  Body("obj", JStr("2.0"), JStr("eth_blockNumber"), JNum("1"), Undefined)

\* C4: the cache and the upstream are touched only for a request whose body
\* parsed, whose version tag is "2.0", whose method is a non-empty string,
\* whose id is present, whose chain configuration was found and has an
\* active endpoint; a request rejected at parse or validation touches
\* neither, and eth_blockNumber with id 1 and no params is not rejected.
C4_AccessAfterValidation ==
  /\ Accessed =>
       /\ http.parses
       /\ json.top = "obj"
       /\ json.jsonrpc = JStr("2.0")
       /\ json.method.t = "str" /\ json.method.s # ""
       /\ json.id # Undefined
       /\ chainConfig # NoChainConfig
       /\ \E i \in 1 .. Len(chainConfig.rpcs) : chainConfig.rpcs[i].isActive
  /\ (pc = "done" /\ (~http.parses \/ IsInvalidRequest(response))) => ~Accessed
  /\ (pc = "done" /\ json = BlockNumberNoParams) =>
       /\ ~IsInvalidRequest(response)
       /\ chainConfig.rpcs # << >> /\ ~NoneActive => Accessed

\* eth_blockNumber without params has been accepted and sent upstream after a
\* cache read
C4_AcceptedAndForwarded ==
  /\ json = BlockNumberNoParams
  /\ nCacheReads > 0
  /\ nUpstream > 0

\* the shape the specification accepts: version "2.0", a non-empty string
\* method, an id that is a string, a number or null, params an array or
\* absent
AcceptedShape(b) ==
  /\ b.top = "obj"
  /\ b.jsonrpc = JStr("2.0")
  /\ b.method.t = "str" /\ b.method.s # ""
  /\ b.id.t \in {"str", "num", "null"}
  /\ b.params.t \in {"undefined", "arr"}

\* C5: a parsed body passes validation if and only if its version tag is
\* "2.0", its method a non-empty string, its id a string, a number or null,
\* and its params an array or absent; every other body gets the "Invalid
\* Request" error.
C5_ValidationShape ==
  /\ pc \in {"resolve", "config", "healthy", "cache", "attempt", "sleep",
             "exhausted", "respond"} => AcceptedShape(json)
  /\ (pc = "done" /\ http.parses) =>
       (IsInvalidRequest(response) <=> ~AcceptedShape(json))

\* a request whose params is an object has passed validation and has been
\* sent upstream
C5_ObjectParamsForwarded ==
  /\ json.params.t = "obj"
  /\ json.jsonrpc = JStr("2.0")
  /\ nUpstream > 0

\* the response is one of the four error exits of a parsed request
IsRequestError(r) ==
  \/ IsInvalidRequest(r)
  \/ r.fmt = "jsonrpc" /\ r.code \in {CODE_CHAIN_NOT_SUPPORTED, CODE_NO_HEALTHY_RPCS}
  \/ r.fmt = "app" /\ r.codeName = "NETWORK_ERROR"

\* C6: the invalid-request, chain-not-supported, no-healthy-RPC and
\* retries-exhausted responses of a request whose body parsed and holds an
\* id carry exactly that id, whatever it is (0 and "" included).
C6_ErrorKeepsId ==
  (pc = "done" /\ http.parses /\ json.id # Undefined /\ IsRequestError(response)) =>
    response.id = json.id

\* the "Invalid Request" response to a request with id 0 carries id null
C6_ZeroIdLost ==
  /\ pc = "done"
  /\ json.id = JNum("0")
  /\ IsInvalidRequest(response)
  /\ response.id = JNull

\* C7: when every attempt of the loop has failed, the response is a JSON-RPC
\* error envelope with HTTP status 200 that carries the request id and the
\* message of the last failure.
C7_ExhaustedEnvelope ==
  (pc = "done" /\ okAt = {} /\ nUpstream = DEFAULT_MAX_RETRIES + 1) =>
    /\ response.fmt = "jsonrpc"
    /\ response.status = HTTP_OK
    /\ response.id = json.id
    /\ response.message = lastError

\* the four attempts failed and the response is the application error with
\* HTTP status 503 and no id
C7_ExhaustedIs503 ==
  /\ pc = "done"
  /\ okAt = {} /\ nUpstream = 4
  /\ response.fmt = "app"
  /\ response.status = HTTP_SERVICE_UNAVAILABLE
  /\ response.id = Undefined

\* C8: the attempt that ends the loop as a success had a 2xx status and a
\* well-formed JSON-RPC response body, and only such a body is returned to
\* the caller as the upstream result.
C8_SuccessIsWellFormed ==
  /\ (pc \in {"respond", "done"} /\ okAt # {}) =>
       /\ Ok(upResp.status)
       /\ IsJSONRPCResponse(upResp.body)
  /\ (pc = "done" /\ response.fmt = "upstream") =>
       IsJSONRPCResponse(response.body)

\* a 200 reply that is not JSON has ended the loop at the first attempt and
\* has been returned to the caller
C8_NonJsonReturned ==
  /\ pc = "done"
  /\ nUpstream = 1 /\ okAt = {1}
  /\ response.fmt = "upstream"
  /\ response.status = HTTP_OK
  /\ response.body.kind = "other"

\* a Response a caller can be sent
WellFormed(r) ==
  /\ r.fmt \in {"cached", "upstream", "jsonrpc", "app"}
  /\ r.status \in {HTTP_OK, HTTP_BAD_REQUEST, HTTP_INTERNAL_SERVER_ERROR,
                   HTTP_SERVICE_UNAVAILABLE} \cup UpstreamStatuses
  /\ r.xRequestId # NoRequestId

\* C9: every request handleRequest is given ends with a well-formed
\* Response, whatever the parse, validation, configuration, cache, selector
\* and upstream outcomes; the Response is set once; and, every step of a
\* request in flight being eventually taken, every request does end.
C9_AlwaysResponds ==
  /\ [](pc = "done" => WellFormed(response))
  /\ [](pc \notin {"done"} => response = NoResponse)
  /\ [][response # NoResponse => response' \in {response, NoResponse}]_vars
  /\ (pc = "parse") ~> (pc = "done")

\* a fault thrown after the loop (the re-wrapping of a Response whose body
\* was read) has been answered by the catch block
C9_FaultAnswered ==
  /\ pc = "done"
  /\ upResp.bodyUsed
  /\ response.fmt = "app"
  /\ response.status = HTTP_INTERNAL_SERVER_ERROR

\* C10: only an attempt that the loop counts as a success writes to the
\* cache, so a request that ends in the terminal network error has written
\* nothing and leaves no entry of its own (one stamped with its time) behind.
C10_FailureWritesNothing ==
  /\ nCacheWrites <= Cardinality(okAt)
  /\ (pc = "done" /\ response.fmt = "app" /\ response.codeName = "NETWORK_ERROR") =>
       /\ nCacheWrites = 0
       /\ \A r \in cache : r.entry.timestamp < now

\* the request has ended in the network error and the cache holds an entry
\* that one of its failed attempts wrote
C10_EntryLeftByFailure ==
  /\ pc = "done"
  /\ okAt = {}
  /\ response.codeName = "NETWORK_ERROR"
  /\ nCacheWrites = 4
  /\ \E r \in cache : r.entry.timestamp = now /\ r.entry.data.id = json.id

C12_HitShortCircuits ==
  /\ [][ (pc = "cache" /\ LookupReads) =>
          LET unexpired ==
                {r \in cache : /\ r.key = RequestKey
                               /\ now < r.expiresAt
                               /\ now <= r.entry.timestamp + r.entry.ttl * 1000}
          IN IF unexpired # {} /\ cacheFaults' = cacheFaults
             THEN /\ pc' = "done"
                  /\ response'.status = HTTP_OK
                  /\ response'.xCache
                  /\ response'.xRequestId = requestId
                  /\ \E r \in unexpired : response'.body = r.entry.data
                  /\ nSelect' = 0 /\ nUpstream' = 0 /\ nCacheWrites' = 0
                  /\ cache' = cache
             ELSE /\ pc' = "attempt"
                  /\ response' = NoResponse ]_vars
  /\ [](response.xCache => nSelect = 0 /\ nUpstream = 0 /\ nCacheWrites = 0)

\* a request for eth_blockNumber on chain 1 has been answered with the
\* payload an earlier request left in the cache
C12_ServedFromCache ==
  /\ pc = "done"
  /\ response.xCache
  /\ response.status = HTTP_OK
  /\ response.body = UpBody("rpc", JNum("7"), FALSE, "0x1")
  /\ json.method.s = "eth_blockNumber"
  /\ nCacheReads = 1
  /\ nSelect = 0 /\ nUpstream = 0 /\ nCacheWrites = 0

C14_ExpiredReadRemoves ==
  [][ ( /\ cacheResult'.op = "get"
        /\ now' = now
        /\ cacheResult'.fault = "none"
        /\ \E r \in cache : /\ r.key = cacheResult'.key
                             /\ r.entry.timestamp + r.entry.ttl * 1000 < now )
      => /\ ~cacheResult'.hit
         /\ \A r \in cache' : r.key # cacheResult'.key ]_vars

\* a get found the entry set with ttl 1 two seconds earlier still in the
\* store, reported it expired and removed it
C14_ExpiredEntryRemoved ==
  /\ cacheResult.op = "get"
  /\ cacheResult.result = "expired"
  /\ cacheResult.fault = "none"
  /\ ~cacheResult.hit
  /\ cacheResult.at = 3000
  /\ \A r \in cache : r.key # cacheResult.key

\* C15: get never returns the payload of an entry that is logically expired,
\* an entry being expired once timestamp + ttl * 1000 <= now: a get at
\* exactly now = timestamp + ttl * 1000 reports a miss.
C15_NoExpiredPayload ==
  [][ ( /\ cacheResult'.op = "get"
        /\ now' = now
        /\ \E r \in cache : /\ r.key = cacheResult'.key
                             /\ r.entry.timestamp + r.entry.ttl * 1000 <= now )
      => ~cacheResult'.hit ]_vars

\* a get made at exactly timestamp + ttl * 1000 returned the payload
C15_HitAtDeadline ==
  /\ cacheResult.op = "get"
  /\ cacheResult.hit
  /\ cacheResult.at = now
  /\ \E r \in cache : /\ r.key = cacheResult.key
                       /\ r.entry.data = cacheResult.data
                       /\ r.entry.timestamp + r.entry.ttl * 1000 = now

\* what handleRequest returns for the reply of the attempt that succeeded
\* when no cache is configured
ResponseWithoutCache ==
  LET r == makeRPCCall(FALSE, selectedRPC, upReply, json).response
  IN IF r.bodyUsed THEN handleRequestCatch ELSE [r EXCEPT !.xRequestId = requestId]

\* C16: no failure of the cache subsystem reaches the caller.  The lookup of
\* a request ends in a cache hit or in the attempt loop, a lookup that met a
\* failure going on as after a miss; a write whose store put throws leaves
\* the store as it was; and a request an upstream answered returns what it
\* would have returned with no cache configured.
C16_CacheFailuresSwallowed ==
  /\ [][ pc = "cache" =>
          \/ pc' = "attempt" /\ response' = NoResponse
          \/ pc' = "done" /\ response'.xCache /\ cacheFaults' = cacheFaults ]_vars
  /\ [][ (pc = "attempt" /\ cacheFaults' > cacheFaults) => cache' = cache ]_vars
  /\ []((pc = "done" /\ okAt # {}) => response = ResponseWithoutCache)

\* with a cache configured, a request whose params are an object was
\* answered with the internal-error response by the lookup, before any
\* store read, selection or upstream call
C16_KeyFailureSurfaced ==
  /\ pc = "done"
  /\ cacheEnabled
  /\ json.params = JObj(<<>>)
  /\ response = handleRequestCatch
  /\ nCacheReads = 0 /\ nSelect = 0 /\ nUpstream = 0

\* the endpoints of the chain of the last selection whose active flag is set,
\* in the order listed
PickedActive ==
  SelectSeq(picked.chain.rpcs, LAMBDA r : r.isActive = TRUE)

\* C17: a selection returns no endpoint exactly when the chain has no active
\* endpoint; with exactly one active endpoint it returns that endpoint,
\* whatever the priorities (priority 0 included) and the latency windows;
\* otherwise, for every draw and every latency state, it returns an endpoint
\* of the chain whose active flag is set.  For both selectors.
C17_SelectsActive ==
  picked.variant # "none" =>
    /\ (picked.result = NoEndpoint) <=> (Len(PickedActive) = 0)
    /\ Len(PickedActive) = 1 => picked.result = PickedActive[1]
    /\ Len(PickedActive) >= 1 =>
         /\ picked.result.isActive
         /\ \E i \in 1..Len(picked.chain.rpcs) : picked.chain.rpcs[i] = picked.result

\* the performance-tracking selector, with latency samples recorded, was
\* asked for a chain whose only active endpoint has priority 0 and is listed
\* after an inactive one, and returned it
C17_SoleActiveReturned ==
  /\ picked.variant = "tracked"
  /\ responseTimesMap # NoSamples
  /\ Len(PickedActive) = 1
  /\ Len(picked.chain.rpcs) = 2
  /\ picked.result = picked.chain.rpcs[2]
  /\ picked.result.priority = 0

\* the weights of the candidates of the last selection, over their common
\* denominator: the priorities for rpc_selector.ts
PickedWeights ==
  IF picked.variant = "tracked" THEN Weights(responseTimesMap, PickedActive)
  ELSE [i \in 1..Len(PickedActive) |-> PickedActive[i].priority]

\* w_1 + ... + w_i
RECURSIVE Cumulative(_, _)
Cumulative(ws, i) == IF i = 0 THEN 0 ELSE ws[i] + Cumulative(ws, i - 1)

\* C18 as stated: with at least two candidates, candidate i is returned
\* exactly when w_1 + ... + w_(i-1) <= r < w_1 + ... + w_i.
C18_HalfOpenIntervals ==
  (picked.variant # "none" /\ Len(PickedActive) >= 2) =>
    \A i \in 1..Len(PickedActive) :
      (picked.result = PickedActive[i]) <=>
        /\ DrawGrid * Cumulative(PickedWeights, i - 1) <= picked.draw
        /\ picked.draw < DrawGrid * Cumulative(PickedWeights, i)

\* C18, amended: with at least two candidates, the candidate returned is the
\* first one whose cumulative weight w_1 + ... + w_i is at least r, that is
\* candidate i exactly when w_1 + ... + w_(i-1) < r <= w_1 + ... + w_i (and
\* the first candidate for r = 0).  The draws that return candidate i fill an
\* interval of length w_i, so with no latency data the frequencies are
\* proportional to the priorities (10 against 5 gives 2:1).
C18_CumulativeDraw ==
  (picked.variant # "none" /\ Len(PickedActive) >= 2) =>
    \A i \in 1..Len(PickedActive) :
      (picked.result = PickedActive[i]) <=>
        /\ picked.draw <= DrawGrid * Cumulative(PickedWeights, i)
        /\ \A j \in 1..(i - 1) : picked.draw > DrawGrid * Cumulative(PickedWeights, j)

\* with priorities 10 and 5 and no latency data, the draw r = 10 returned
\* the first candidate
C18_BoundaryDraw ==
  /\ picked.variant = "tracked"
  /\ responseTimesMap = NoSamples
  /\ Len(PickedActive) = 2
  /\ PickedActive[1].priority = 10
  /\ PickedActive[2].priority = 5
  /\ picked.draw = DrawGrid * 10
  /\ picked.result = PickedActive[1]

\* C19: a request that completes with a successful upstream call has
\* recorded exactly one latency sample in the selector's window of the
\* endpoint that succeeded; a request that completes without one (every
\* attempt failed, or a cache hit) has recorded none.
C19_SuccessRecordsLatency ==
  /\ (pc = "done" /\ okAt # {}) =>
       /\ selectedRPC.url \in DOMAIN responseTimesMap
       /\ Len(responseTimesMap[selectedRPC.url]) = 1
       /\ \A u \in DOMAIN responseTimesMap \ {selectedRPC.url} :
            responseTimesMap[u] = <<>>
  /\ (pc = "done" /\ okAt = {}) =>
       \A u \in DOMAIN responseTimesMap : responseTimesMap[u] = <<>>

\* a request has been answered by an upstream at the first attempt and the
\* selector holds no sample for any endpoint
C19_NoSampleAfterSuccess ==
  /\ pc = "done"
  /\ okAt = {1}
  /\ nUpstream = 1
  /\ response.status = HTTP_OK
  /\ selectedRPC # NoEndpoint
  /\ responseTimesMap = NoSamples

\* C20: after any sequence of recordResponseTime calls, in any order over
\* the endpoints, the window of each endpoint holds at most 10 samples and
\* is, in recording order, the most recent min(k, 10) of the k samples
\* recorded for that endpoint; a call for one endpoint leaves the window of
\* every other endpoint as it was.
C20_WindowIsRecentSamples ==
  /\ [](/\ DOMAIN responseTimesMap = DOMAIN recorded
        /\ \A u \in DOMAIN recorded :
             LET k == Len(recorded[u])
                 n == IF k < 10 THEN k ELSE 10
             IN /\ Len(responseTimesMap[u]) <= 10
                /\ responseTimesMap[u] = SubSeq(recorded[u], k - n + 1, k))
  /\ [][ \A u \in DOMAIN recorded :
           recorded'[u] = recorded[u] => responseTimesMap'[u] = responseTimesMap[u] ]_vars

\* an eleventh sample was recorded for an endpoint whose first two samples
\* differ: the window starts at the second sample and ends at the eleventh
C20_OldestEvicted ==
  \E u \in DOMAIN recorded :
    /\ Len(recorded[u]) = 11
    /\ recorded[u][1] # recorded[u][2]
    /\ Len(responseTimesMap[u]) = 10
    /\ responseTimesMap[u][1] = recorded[u][2]
    /\ responseTimesMap[u][10] = recorded[u][11]

\* the factor the performance-tracking selector applied to candidate i of the
\* last selection, read back from the weights it walked: a fraction
\* num / den with weight = priority * num / den (priority above 0)
PickedFactor(i) ==
  Frac(PickedWeights[i], PickedActive[i].priority * CommonDen(responseTimesMap, PickedActive))

\* C21: the weight of a candidate of the performance-tracking selector is
\* priority * max(0.1, 100 / avg) whenever its window holds samples, avg being
\* their mean, and the priority when it holds none; of two candidates of
\* equal priority the one averaging 50 ms weighs strictly more than the one
\* averaging 1000 ms; the factor is never below 0.1.  (w = p * 100 / avg is
\* stated as w * sum = p * 100 * n, for n samples of sum sum.)
C21_WeightFormula ==
  (picked.variant = "tracked" /\ Len(PickedActive) >= 2) =>
    LET den == CommonDen(responseTimesMap, PickedActive)
    IN /\ \A i \in 1..Len(PickedActive) :
            LET times == SamplesOf(responseTimesMap, PickedActive[i].url)
                p == PickedActive[i].priority
                w == PickedWeights[i]
            IN /\ Len(times) = 0 => w = p * den
               /\ (Len(times) > 0 /\ 1000 * Len(times) >= SumSeq(times)) =>
                    w * SumSeq(times) = p * 100 * Len(times) * den
               /\ (Len(times) > 0 /\ 1000 * Len(times) < SumSeq(times)) =>
                    10 * w = p * den
               /\ 10 * w >= p * den
       /\ \A i, j \in 1..Len(PickedActive) :
            LET ti == SamplesOf(responseTimesMap, PickedActive[i].url)
                tj == SamplesOf(responseTimesMap, PickedActive[j].url)
            IN ( /\ PickedActive[i].priority = PickedActive[j].priority
                 /\ PickedActive[i].priority > 0
                 /\ Len(ti) > 0 /\ SumSeq(ti) = 50 * Len(ti)
                 /\ Len(tj) > 0 /\ SumSeq(tj) = 1000 * Len(tj) )
               => PickedWeights[i] > PickedWeights[j]

\* the selector weighed three candidates of priority 1: one averaging
\* 2000 ms at 0.1, one without samples at 1, and one whose only sample is
\* 0 ms at 1 as well, as if it had no sample
C21_ZeroAverageUnweighted ==
  /\ picked.variant = "tracked"
  /\ Len(PickedActive) = 3
  /\ SamplesOf(responseTimesMap, PickedActive[1].url) = <<2000>>
  /\ SamplesOf(responseTimesMap, PickedActive[2].url) = <<>>
  /\ SamplesOf(responseTimesMap, PickedActive[3].url) = <<0>>
  /\ PickedFactor(1) = Frac(1, 10)
  /\ PickedFactor(2) = Frac(1, 1)
  /\ PickedFactor(3) = Frac(1, 1)

\* C21 for every window whose mean is above 0: the same statement, with a
\* window of mean 0 weighed like an empty one
C21_PositiveAverages ==
  (picked.variant = "tracked" /\ Len(PickedActive) >= 2) =>
    LET den == CommonDen(responseTimesMap, PickedActive)
    IN \A i \in 1..Len(PickedActive) :
         LET times == SamplesOf(responseTimesMap, PickedActive[i].url)
             p == PickedActive[i].priority
             w == PickedWeights[i]
         IN /\ SumSeq(times) = 0 => w = p * den
            /\ (SumSeq(times) > 0 /\ 1000 * Len(times) >= SumSeq(times)) =>
                 w * SumSeq(times) = p * 100 * Len(times) * den
            /\ (SumSeq(times) > 0 /\ 1000 * Len(times) < SumSeq(times)) =>
                 10 * w = p * den

\* the chain of the last failover call without the endpoints that carry the
\* failed url
ChainWithoutFailed ==
  Chain(failover.chain.key,
        SelectSeq(failover.chain.rpcs, LAMBDA r : r.url # failover.failedRPCUrl))

\* C22: getFailoverRPC never returns an endpoint of the failed url nor an
\* inactive one; it returns no endpoint exactly when the chain has no active
\* endpoint of another url; otherwise it returns, for the same draw and the
\* same latency windows, what selectRPC returns on the chain without the
\* endpoints of the failed url.  For both selectors.
C22_FailoverExcludes ==
  failover.variant # "none" =>
    LET others == { i \in 1..Len(failover.chain.rpcs) :
                      /\ failover.chain.rpcs[i].isActive
                      /\ failover.chain.rpcs[i].url # failover.failedRPCUrl }
    IN /\ (failover.result = NoEndpoint) <=> (others = {})
       /\ others # {} =>
            /\ failover.result.url # failover.failedRPCUrl
            /\ failover.result.isActive
            /\ \E i \in others : failover.chain.rpcs[i] = failover.result
            /\ failover.variant = "simple" =>
                 failover.result = selectRPC(ChainWithoutFailed, failover.draw)
            /\ failover.variant = "tracked" =>
                 failover.result =
                   trackedSelectRPC(responseTimesMap, ChainWithoutFailed, failover.draw)

\* with three active endpoints of equal priority and the second one named as
\* failed, the performance-tracking failover returned the third, which
\* carries latency samples; the first was returned for another draw
C22_FailoverToThird ==
  /\ failover.variant = "tracked"
  /\ Len(failover.chain.rpcs) = 3
  /\ \A i \in 1..3 : failover.chain.rpcs[i].isActive
  /\ failover.failedRPCUrl = failover.chain.rpcs[2].url
  /\ failover.result = failover.chain.rpcs[3]
  /\ SamplesOf(responseTimesMap, failover.result.url) # <<>>
  /\ \E u \in TrackedFailoverDraws(responseTimesMap, failover.chain, failover.failedRPCUrl) :
       trackedGetFailoverRPC(responseTimesMap, failover.chain, failover.failedRPCUrl, u)
         = failover.chain.rpcs[1]

\* a decimal integer literal: one or more digits, nothing else
NumericLooking(cs) == cs # <<>> /\ \A i \in 1..Len(cs) : IsDigit(cs[i])

\* a chain id as C23 reads a supplied value: an integer when it looks
\* numeric, the text itself otherwise
AsChainId(text) ==
  IF NumericLooking(Chars(text)) THEN NumChain(DigitsValue(Chars(text), 0))
  ELSE StrChain(text)

\* what the query supplies: chainId when it is there and not empty, else chain
QuerySupplied == IF Truthy(http.chainId) THEN http.chainId ELSE http.chain

\* the object-typed members of the params list, in order
ObjectParams ==
  IF IsArray(json.params) THEN SelectSeq(json.params.a, LAMBDA v : v.t = "obj") ELSE <<>>

HasChainId(v) == \E i \in 1..Len(v.a) : v.a[i].k = "chainId"

\* C23: the chain id is taken from the first source that supplies one, in
\* the order path segment, query parameter, chainId member of the first
\* object-typed param, default 1; a value that looks numeric is coerced to
\* that integer and any other value is kept as a string.
C23_ChainIdPrecedence ==
  (pc = "idle" /\ http # NoRequest) =>
    chainId =
      IF PathMatch(http.path) # <<>> THEN AsChainId(PathMatch(http.path)[1])
      ELSE IF Truthy(QuerySupplied) THEN AsChainId(QuerySupplied.s)
      ELSE IF ObjectParams # <<>> /\ HasChainId(ObjectParams[1])
        THEN AsChainId(StringOf(ChainMember(ObjectParams[1])))
      ELSE NumChain(DEFAULT_CHAIN_ID)

\* the path /56x, which is not a number, was resolved to the integer 56
C23_PrefixTakenAsNumber ==
  /\ pc = "idle"
  /\ http.path = <<"56x">>
  /\ ~NumericLooking(Chars("56x"))
  /\ chainId = NumChain(56)

\* C23 as the code has it: the same order of sources, the embedded chainId
\* taken from the first object-typed param that has one, and a value coerced
\* to the integer of its leading digits whenever it starts with a digit
C23_SourceOrder ==
  (pc = "idle" /\ http # NoRequest) =>
    LET lead(text) == IF IsDigit(Head(Chars(text) \o <<"">>))
                        THEN NumChain(DigitsValue(Chars(text), 0))
                      ELSE StrChain(text)
        holders == SelectSeq(ObjectParams, HasChainId)
    IN chainId =
         IF PathMatch(http.path) # <<>> THEN lead(PathMatch(http.path)[1])
         ELSE IF Truthy(QuerySupplied) THEN lead(QuerySupplied.s)
         ELSE IF holders # <<>> THEN lead(StringOf(ChainMember(holders[1])))
         ELSE NumChain(DEFAULT_CHAIN_ID)

\* C24: a POST to /rpc?chainId=56 with a valid body (params a list or
\* absent) is resolved to chain 56 and proxied to the endpoints of chain 56,
\* as a POST to /rpc/56 is: it is not answered "Chain not supported", and an
\* endpoint of chain 56 is selected.
C24_QueryChainProxied ==
  ( /\ pc = "done"
    /\ http.parses /\ isValidJSONRPC(json) /\ json.params.t \in {"undefined", "arr"}
    /\ \/ http.path = <<"rpc", "56">>
       \/ (http.path = <<"rpc">> /\ http.chainId = JStr("56")) )
  => /\ chainId = NumChain(56)
     /\ chainConfig = getChainConfig(StoredConfig, NumChain(56))
     /\ response.code # CODE_CHAIN_NOT_SUPPORTED
     /\ nSelect >= 1
     /\ \E i \in 1..Len(chainConfig.rpcs) : chainConfig.rpcs[i] = selectedRPC

\* POST /rpc?chainId=56 with a valid body has been answered "Chain not
\* supported": the chain was resolved to the string "rpc" and nothing was
\* selected
C24_QueryFormUnsupported ==
  /\ pc = "done"
  /\ http.path = <<"rpc">> /\ http.chainId = JStr("56")
  /\ json = BlockNumberNoParams
  /\ chainId = StrChain("rpc")
  /\ chainConfig = NoChainConfig
  /\ response.code = CODE_CHAIN_NOT_SUPPORTED
  /\ nSelect = 0 /\ nUpstream = 0

\* POST /rpc/56 with the same body has been proxied to the endpoint of chain 56
C24_PathFormProxied ==
  /\ pc = "done"
  /\ http.path = <<"rpc", "56">>
  /\ json = BlockNumberNoParams
  /\ chainId = NumChain(56)
  /\ selectedRPC.url = "d"
  /\ nUpstream >= 1

\* C25: an attempt is bounded by the endpoint's timeout: the call is not
\* outstanding (neither waiting for the status nor for the body) beyond it;
\* once the time is past the timeout, an upstream call that had not finished
\* (status and body in) within it has been cancelled and the attempt has been
\* counted as a timeout failure; and when the next attempt starts or the
\* request returns, such a call is not still in flight.
C25_HardTimeout ==
  LET c == upstreamCall
      finishedInTime == c.finishedAt >= 0 /\ c.finishedAt <= c.timeout
  IN /\ c.pc \in {"fetching", "reading"} => c.elapsed <= c.timeout
     /\ (c.pc # "idle" /\ c.elapsed > c.timeout /\ ~finishedInTime /\ c.outcome # "neterr") =>
          /\ c.upstream = "aborted"
          /\ c.outcome = "timeout"
     /\ (c.pc \in {"retrying", "answered"} /\ ~finishedInTime) => c.upstream # "streaming"

\* the status arrived within the timeout and the body did not: past the
\* timeout the timer is cleared, nothing has been cancelled, and makeRPCCall
\* is still waiting for the body
C25_BodyOutlivesTimeout ==
  /\ upstreamCall.pc = "reading"
  /\ upstreamCall.elapsed > upstreamCall.timeout
  /\ upstreamCall.timer = "cleared"
  /\ upstreamCall.upstream = "streaming"
  /\ upstreamCall.outcome = "none"

\* C25 up to the arrival of the status: while the fetch has not resolved the
\* time never passes the timeout, and a timer that fires cancels the call and
\* makes the attempt a failure that is retried
C25_StatusWithinTimeout ==
  LET c == upstreamCall
  IN /\ c.pc = "fetching" => c.elapsed <= c.timeout
     /\ c.outcome = "timeout" =>
          /\ c.upstream = "aborted"
          /\ c.elapsed = c.timeout
          /\ c.pc \in {"threw", "retrying"}

\* C26: when an attempt has succeeded, the response returned to the caller
\* carries exactly the status and body the upstream sent in that attempt and
\* the X-Request-ID of this request; an upstream body with a JSON-RPC error
\* member is passed on like any other: the attempt that received it is the
\* last one, and it wrote nothing to the cache.
C26_PassThrough ==
  /\ []((pc = "done" /\ okAt # {}) =>
          /\ response.fmt = "upstream"
          /\ response.status = upReply.status
          /\ response.body = upReply.body
          /\ response.xRequestId = requestId
          /\ okAt = {nUpstream})
  /\ [][ (okAt' # okAt /\ upReply'.body.hasError) =>
           (cache' = cache /\ nCacheWrites' = nCacheWrites) ]_vars

\* an attempt succeeded with status 200, a JSON content type and a body that
\* is not a JSON-RPC response, and the caller was sent the internal-error
\* response instead of that body
C26_BodyReplacedByError ==
  /\ pc = "done"
  /\ okAt = {1}
  /\ upReply.status = HTTP_OK /\ upReply.ctJson
  /\ upReply.body.kind = "other"
  /\ response = handleRequestCatch
  /\ response.body # upReply.body

\* C26 for the replies C8 counts as successes, a 2xx status with a JSON-RPC
\* response as body, and for the replies whose content type is not JSON
C26_WellFormedPassThrough ==
  /\ []((pc = "done" /\ okAt # {} /\ (IsJSONRPCResponse(upReply.body) \/ ~upReply.ctJson)) =>
          /\ response.fmt = "upstream"
          /\ response.status = upReply.status
          /\ response.body = upReply.body
          /\ response.xRequestId = requestId
          /\ okAt = {nUpstream})
  /\ [][ (okAt' # okAt /\ upReply'.body.hasError) =>
           (cache' = cache /\ nCacheWrites' = nCacheWrites) ]_vars

\* a 200 reply carrying a JSON-RPC error object has been passed to the caller
\* at the first attempt, with nothing written to the cache
C26_ErrorObjectPassed ==
  /\ pc = "done"
  /\ okAt = {1} /\ nUpstream = 1
  /\ cacheEnabled
  /\ json.method.s \in cacheableMethods
  /\ upReply.body.hasError
  /\ response.body = upReply.body
  /\ response.xRequestId = requestId
  /\ nCacheWrites = 0

\* the two derivations were given the same chain and method
SameChainAndMethod ==
  derived[1].chain = derived[2].chain /\ derived[1].method = derived[2].method

\* both params are a list of one object, with the same members in a
\* different insertion order
ReorderedObjects ==
  LET p == derived[1].params
      q == derived[2].params
  IN /\ IsArray(p) /\ IsArray(q)
     /\ Len(p.a) = 1 /\ Len(q.a) = 1
     /\ p.a[1].t = "obj" /\ q.a[1].t = "obj"
     /\ {p.a[1].a[i] : i \in 1..Len(p.a[1].a)} = {q.a[1].a[i] : i \in 1..Len(q.a[1].a)}
     /\ p.a[1].a # q.a[1].a

GivenParams(d) == IF d.params = Undefined THEN JArr(<<>>) ELSE d.params

\* C29: two generateCacheKey calls whose (chain, method, params) differ
\* return different keys.
C29_DistinctKeys ==
  ( /\ Len(derived) = 2
    /\ \/ derived[1].chain # derived[2].chain
       \/ derived[1].method # derived[2].method
       \/ GivenParams(derived[1]) # GivenParams(derived[2]) )
  => derived[1].key # derived[2].key

\* the params ["a|b"] and the params ["a", "b"], with the same chain and
\* method, were given the same key
C29_SeparatorCollision ==
  /\ Len(derived) = 2
  /\ SameChainAndMethod
  /\ derived[1].params = JArr(<< JStr("a|b") >>)
  /\ derived[2].params = JArr(<< JStr("a"), JStr("b") >>)
  /\ derived[1].key = derived[2].key

\* what two calls that return the same key have in common: the chain, the
\* method, and the text params.map(...).join('|') makes of the params
C29_SameKeySameText ==
  (Len(derived) = 2 /\ derived[1].key = derived[2].key) =>
    /\ SameChainAndMethod
    /\ ParamsStr(GivenParams(derived[1]).a) = ParamsStr(GivenParams(derived[2]).a)


\* C28: a JSON-RPC response returned to the caller, whether passed on from
\* the upstream or served from the cache, carries the id of the caller's own
\* request.
C28_ResponseIdIsOwn ==
  ( /\ pc = "done"
    /\ response.fmt \in {"cached", "upstream"}
    /\ IsJSONRPCResponse(response.body) ) =>
    response.body.id = json.id

\* a request with id 1 is answered from the cache with the response, id 7
\* included, that an earlier request left there
C28_CachedIdOfEarlierRequest ==
  /\ pc = "done"
  /\ response.fmt = "cached"
  /\ response.xCache
  /\ json.id = JNum("1")
  /\ response.body.id = JNum("7")

\* a response passed on from the upstream carries the id the upstream sent,
\* which is the id of the forwarded request
C28_UpstreamIdIsOwn ==
  ( /\ pc = "done"
    /\ response.fmt = "upstream"
    /\ IsJSONRPCResponse(response.body) ) =>
    response.body.id = json.id


\* the record the last set call put in the store
LastSetRecord ==
  SetRecord(cacheResult.key, cacheResult.value, cacheResult.ttl, cacheResult.at,
            cacheResult.fault # "compress")

\* C30: the delete that get issues for an expired entry removes nothing but
\* what that get read: every entry of the store that is not expired and that
\* the get did not read is still in the store after the delete.
C30_DeleteOnlyWhatWasRead ==
  [][ (reader.pc = "deleting" /\ reader'.pc = "deleted") =>
        \A r \in cache :
          (r \notin reader.seen /\ ~EntryExpired(r.entry, now)) => r \in cache' ]_vars

\* get read an expired entry, another request's set then put a fresh entry
\* under the same key, and after get's delete the key holds nothing
C30_FreshEntryDeleted ==
  /\ reader.pc = "deleted"
  /\ reader.seen # {}
  /\ cacheResult.op = "set"
  /\ cacheResult.key = reader.key
  /\ cacheResult.caught = "none"
  /\ LastSetRecord \notin reader.seen
  /\ ~EntryExpired(LastSetRecord.entry, now)
  /\ KVGet(cache, reader.key) = {}

\* the delete leaves the entries of every other key in the store
C30_OtherKeysKept ==
  [][ (reader.pc = "deleting" /\ reader'.pc = "deleted") =>
        \A r \in cache : r.key # reader.key => r \in cache' ]_vars


\* the urls of the active endpoints of a chain
ActiveUrls(config) == { ActiveRPCs(config)[i].url : i \in 1 .. Len(ActiveRPCs(config)) }

\* C31: every attempt of the retry loop selects among the active endpoints
\* of the chain configuration read at the start of the request, which the
\* loop never replaces, and the selection is never empty: each attempt makes
\* its upstream call.
C31_AttemptReselects ==
  [][ pc = "attempt" =>
        /\ chainConfig' = chainConfig
        /\ chainConfig = getChainConfig(configStore, chainId)
        /\ nSelect' = nSelect + 1
        /\ nUpstream' = nUpstream + 1
        /\ selectedRPC' # NoEndpoint
        /\ selectedRPC'.url \in ActiveUrls(chainConfig)
        /\ attempted' \subseteq ActiveUrls(chainConfig) ]_vars

\* on a chain with two active endpoints the first attempt failed and the
\* retry went to the same endpoint again
C31_RetrySameEndpoint ==
  /\ Cardinality(ActiveUrls(chainConfig)) = 2
  /\ nUpstream = 2
  /\ 1 \in failedAt
  /\ Cardinality(attempted) = 1


\* C32: one request reads the configuration store at most once, exactly
\* once when it is proxied, and never calls the store's put.
C32_ConfigReadOnceNeverWritten ==
  /\ nConfigReads <= 1
  /\ (pc \in {"healthy", "cache", "attempt", "sleep", "exhausted", "respond"} \/ nUpstream > 0)
       => nConfigReads = 1
  /\ nConfigWrites = 0

\* on a store that holds no configuration a proxied request has called put
\* once and left the default configuration in the store
C32_DefaultConfigSaved ==
  /\ pc = "done"
  /\ nUpstream > 0
  /\ nConfigReads = 1
  /\ nConfigWrites = 1
  /\ configStore = DEFAULT_RPC_CONFIG

\* a store that holds a configuration is left as it is
C32_StoredConfigKept ==
  [][ configStore # NoConfig => configStore' = configStore ]_vars


\* C33: every record set has put in the store carries the compressed flag
\* exactly when its text is the base64 gzip form, that is when the serialized
\* entry is 1024 characters or longer and the compression did not throw, and
\* the store's own expiry is the ttl recorded inside the entry.
C33_FlagAndTtlMatchStoredText ==
  /\ \A r \in cache :
       /\ r.compressed <=> r.enc = "gzip64"
       /\ ~r.compressed <=> r.enc = "json"
       /\ r.compressed => shouldCompress(SerializedLength(r.entry.data))
       /\ r.expiresAt = r.entry.timestamp + r.entry.ttl * 1000
  /\ (cacheResult.op = "set" /\ cacheResult.fault # "put") =>
       \E r \in KVGet(cache, cacheResult.key) :
         /\ r.compressed <=> ( /\ shouldCompress(SerializedLength(cacheResult.value))
                                /\ cacheResult.fault # "compress" )
         /\ r.entry.ttl = EffectiveTtl(cacheResult.ttl)

\* the store holds an entry of 1024 characters in its compressed form with
\* the flag set, and another whose compression threw, as plain text with the
\* flag clear
C33_CompressedAndFallback ==
  /\ \E r \in cache :
       r.compressed /\ r.enc = "gzip64" /\ SerializedLength(r.entry.data) = 1024
  /\ cacheResult.op = "set"
  /\ cacheResult.fault = "compress"
  /\ \E r \in KVGet(cache, cacheResult.key) :
       ~r.compressed /\ r.enc = "json" /\ shouldCompress(SerializedLength(r.entry.data))


\* the configurations the two mutations leave when one runs after the other
SerialOutcomes ==
  LET h == writers["health"].op
      a == writers["admin"].op
  IN { Apply(h, Apply(a, StoredConfig).config).config,
       Apply(a, Apply(h, StoredConfig).config).config }

BothFinished == \A w \in Callers : writers[w].pc \in {"saved", "failed"}

\* C34: when a status update of the health check and an admin mutation have
\* both completed, however their reads and writes interleaved, the stored
\* configuration is what the two leave when one runs after the other.
C34_NoLostUpdate == BothFinished => configStore \in SerialOutcomes

\* the health check reactivated c on chain 1 and the admin added f to chain 1,
\* both saved, and the stored chain has f while c is still inactive
C34_StatusUpdateLost ==
  /\ writers["health"].pc = "saved"
  /\ writers["admin"].pc = "saved"
  /\ writers["health"].op = Op("updateRPCStatus", "1", "c", TRUE, <<>>)
  /\ writers["admin"].op.name = "addRPCEndpoint"
  /\ \E chain \in ChainsAt(configStore, "1") :
       /\ FindIndex(chain.rpcs, "f") # 0
       /\ ~chain.rpcs[FindIndex(chain.rpcs, "c")].isActive

\* mutations that do not overlap are both kept
C34_SequentialKept ==
  [][ \A w \in Callers :
        (writers[w].pc = "loaded" /\ writers[w].config = configStore
         /\ writers'[w].pc = "saved")
        => configStore' = Apply(writers[w].op, configStore).config ]_vars


\* the results of the run for the endpoint url of the chain key
ResultsFor(key, url) ==
  { healthRun.results[n].isHealthy :
      n \in { m \in 1 .. Len(healthRun.results) :
                /\ ChainKey(healthRun.results[m].chainId) = Chars(key)
                /\ healthRun.results[m].url = url } }

InFlight == probes.started - Cardinality(probes.settled)

\* C36: at no time are more than 10 probes in flight, and checkAllHealth
\* returns one result for each endpoint.
C36_LimitedProbes ==
  /\ InFlight <= CONCURRENCY
  /\ probes.pc = "returned" =>
       (probes.results = 1 .. probes.total /\ probes.pushed = probes.total)

\* eleven endpoints are configured and their eleven probes are in flight
\* before executeWithConcurrency has been entered
C36_ElevenInFlight ==
  /\ probes.pc = "collecting"
  /\ probes.total = 11
  /\ InFlight = 11

\* checkAllHealth returns one result for each endpoint
C36_OneResultEach ==
  probes.pc = "returned" =>
    (probes.results = 1 .. probes.total /\ probes.pushed = probes.total)


\* C37: a deduplicate call made while a request of its key is in flight and
\* younger than maxAge does not invoke the request function and returns the
\* promise of that request.
C37_SharedWhileInFlight ==
  dedup.last.youngBefore # {} =>
    (~dedup.last.invoked /\ dedup.last.returned \in dedup.last.youngBefore)

\* a call found a young request of its key in flight and started another
C37_StartedAgain ==
  /\ dedup.last.invoked
  /\ dedup.last.youngBefore # {}
  /\ dedup.last.returned \notin dedup.last.youngBefore

\* a call that finds an entry younger than maxAge under its key returns the
\* promise of that entry without invoking the request function
C37_EntryShared ==
  [][ \A k \in DedupKeys :
        ( /\ dedup.pendingRequests[k] # NoEntry
          /\ now - dedup.pendingRequests[k].timestamp < MAX_AGE
          /\ dedup'.last # dedup.last
          /\ dedup'.last.key = k )
        => ( /\ ~dedup'.last.invoked
             /\ dedup'.last.returned = dedup.pendingRequests[k].id
             /\ dedup'.requests = dedup.requests ) ]_vars

\* C38: a request that completes removes only its own entry, so every
\* request that is in flight and younger than maxAge is the entry of its
\* key, at most one such request exists per key, and no entry is left when
\* no request is in flight.
C38_OwnEntryOnly ==
  /\ \A k \in DedupKeys :
       /\ \A id \in YoungInFlight(k, now) : dedup.pendingRequests[k].id = id
       /\ Cardinality(YoungInFlight(k, now)) <= 1
  /\ (\A id \in 1 .. Len(dedup.requests) : dedup.requests[id].status # "inflight")
       => \A k \in DedupKeys : dedup.pendingRequests[k] = NoEntry

\* request 1 of k1 outlived maxAge and was replaced by request 2; request 1
\* has completed, request 2 is in flight and young, and k1 has no entry
C38_NewerEntryRemoved ==
  /\ Len(dedup.requests) >= 2
  /\ dedup.requests[1].key = "k1"
  /\ dedup.requests[2].key = "k1"
  /\ dedup.requests[1].status # "inflight"
  /\ 2 \in YoungInFlight("k1", now)
  /\ dedup.pendingRequests["k1"] = NoEntry

\* no entry is left when no request is in flight
C38_EmptyWhenIdle ==
  (\A id \in 1 .. Len(dedup.requests) : dedup.requests[id].status # "inflight")
    => \A k \in DedupKeys : dedup.pendingRequests[k] = NoEntry


\* C39: the response of every request carries the request id generated for
\* it in its X-Request-ID header.
C39_RequestIdOnEveryPath == pc = "done" => response.xRequestId = requestId

\* a request has ended in the catch block of handleRequest and its response
\* carries X-Request-ID 'unknown'
C39_InternalErrorUnknownId ==
  /\ pc = "done"
  /\ requestId # NoRequestId
  /\ response = handleRequestCatch
  /\ response.status = HTTP_INTERNAL_SERVER_ERROR
  /\ response.xRequestId = UnknownRequestId

\* the response to a body that is not JSON carries X-Request-ID 'unknown'
C39_ParseErrorUnknownId ==
  /\ pc = "done"
  /\ ~http.parses
  /\ response.status = HTTP_BAD_REQUEST
  /\ response.xRequestId = UnknownRequestId

\* every response that comes neither from the catch block nor from the
\* parse error carries the request id: cache hit, upstream success, invalid
\* request, chain not supported, no healthy RPC, retries exhausted
C39_RequestIdOutsideCatch ==
  (pc = "done" /\ http.parses /\ response # handleRequestCatch) =>
    response.xRequestId = requestId

\* the paths of the claim other than the internal error are all taken
C39_PathsTaken ==
  pc = "done" /\ response.xRequestId = requestId /\ response.fmt = "app"
  /\ response.codeName = "NETWORK_ERROR"

====
